---- MODULE Spec2Model ----
(***************************************************************************)
(* Verification model of the KOFIA fund-composition scraper (scraper.py):  *)
(* the download completion detector, the per-dataset acquisition retry     *)
(* loop, the sessions sharing one download directory, and the parallel     *)
(* orchestrator with its retry pass.                                       *)
(*                                                                         *)
(* Specifications:                                                         *)
(*   SpecWait  wait_for_download_completion against a directory that a     *)
(*             browser download and a concurrent session modify            *)
(*   SpecSeq   one session acquiring its datasets one after the other      *)
(*             (download_dataset, step by step)                            *)
(*   SpecRace  several sessions, one dataset each, on the shared download  *)
(*             directory                                                   *)
(*   SpecWaitFair  SpecWait with the detector's thread scheduled fairly    *)
(*   SpecPar   run_parallel: three batch workers, collection of their      *)
(*             results, the retry pass and the cleanup                     *)
(***************************************************************************)
EXTENDS Integers, Sequences, FiniteSets, TLC

(***************************************************************************)
(* Bounds of the model and constants of the program                        *)
(***************************************************************************)
\* timeout of one wait_for_download_completion call, in ticks of 0.2 s
\* (DOWNLOAD_WAIT_TIMEOUT is 120 s = 600 ticks in config.py; scaled down)
WaitTimeout == 8
\* largest file size the browser writes (in blocks)
MaxSize == 2
\* range(5): size samples per candidate
SizeSamples == 5
\* time.sleep(1) between polls, in ticks of the 0.2 s sample sleep
PollSleepTicks == 5
\* time.sleep(0.2) before each size sample, in ticks
SampleSleepTicks == 1
\* config.MAX_RETRIES
MAX_RETRIES == 3
\* datasets of the one session of SpecSeq
NumDatasets == 2
\* sessions sharing the download directory in SpecRace
NumSessions == 2
\* downloads that reach the directory only after their session stopped
\* waiting for them
MaxLate == 1

(***************************************************************************)
(* File names.  A name is a sequence of components, the last one being     *)
(* its final extension, so that str.endswith is a test on the last         *)
(* component.                                                              *)
(***************************************************************************)
InProgressSuffixes == {".tmp", ".crdownload", ".part"}

EndsWith(fname, suffixes) ==
    /\ Len(fname) > 0
    /\ fname[Len(fname)] \in suffixes

\* the file the browser's download ends as, its in-progress names, a file that
\* was in the directory before, and the name a concurrent session renames to
DlName == <<"download", ".xls">>
TempNames == {DlName \o <<s>> : s \in InProgressSuffixes}
OldName == <<"old", ".xls">>
OtherName == <<"Other", ".xls">>

Sessions == 1 .. NumSessions

\* the name the browser of session s gives the file of its export for
\* dataset d clicked in attempt a
ExportName(s, d, a) == <<"download", s, d, a, ".xls">>
\* f"{output_name}.xls"
OutputName(d) == <<"output", d, ".xls">>

VARIABLES
    dir,            \* DOWNLOAD_DIR: file name -> [size, src]; src tells what
                    \* wrote the file: the name it was created under
                    \* (SpecWait), the <<session, dataset>> of the export
    w_pc,           \* wait_for_download_completion: control point
    w_clock,        \* time.time() - start_time, in ticks
    initial_files,  \* its parameter: the baseline listing
    new_files,      \* names of the current poll still to be iterated
    new_file_path,  \* the candidate being sampled
    current_size,   \* size of the previous sample (-1: none)
    w_k,            \* iterations of range(5) done for the candidate
    w_samples,      \* history: the sizes sampled for the candidate
    w_polls,        \* history: the listings diffed so far (new names seen)
    w_result        \* the returned path, or <<>> while none

VARIABLES
    s_pc,                  \* per session: control point of its batch loop
    s_batch,               \* per session: the datasets it is to acquire
    s_idx,                 \* per session: position in s_batch (1-based)
    attempt,               \* download_dataset: the loop variable (0-based)
    success,               \* download_dataset: the flag it returns
    ds_initial_files,      \* download_dataset: initial_files
    downloaded_file_path,  \* download_dataset: the detector's result
    downloaded_files,      \* self.downloaded_files
    results,               \* the caller's list of (success, dataset)
    pending,               \* the browser: export clicked, file not yet written
    late,                  \* the browser: downloads written late so far
    att_log,               \* history: how each attempt of the call ended
    ds_trail               \* history: what the current attempt found, clicked
                           \* and raised, from the search step on

waitVars == <<w_pc, w_clock, initial_files, new_files, new_file_path,
              current_size, w_k, w_samples, w_polls, w_result>>

dsVars == <<s_pc, s_batch, s_idx, attempt, success, ds_initial_files,
            downloaded_file_path, downloaded_files, results, pending, late,
            att_log, ds_trail>>

VARIABLES
    p_pc,             \* run_parallel: control point
    t_pc,             \* per tab: control point of download_datasets_batch
    t_results,        \* per tab: its results list
    browser,          \* per tab: the driver of its scraper: none, open, quit
    t_scraper,        \* per tab: the scraper it returned (TRUE) or None (FALSE)
    all_results,      \* run_parallel: all_results
    collected,        \* run_parallel: futures consumed from as_completed
    active_scrapers,  \* run_parallel: tab ids, in insertion order
    failed_datasets,  \* run_parallel: configs to retry
    retry_results,    \* run_parallel: retry_results
    final_tally,      \* run_parallel: <<final_success, final_failure, names
                      \* still failed>> once logged
    fails,            \* history: download_dataset calls that returned False
    calls,            \* history: per config name, download_dataset calls of
                      \* the first pass
    retry_log,        \* history: download_dataset calls of the retry pass, as
                      \* <<config name, tab, state of the tab's browser>>
    navs              \* history: per tab, navigations started

parVars == <<p_pc, t_pc, t_results, browser, t_scraper, all_results, collected,
             active_scrapers, failed_datasets, retry_results, final_tally,
             fails, calls, retry_log, navs>>

VARIABLES
    r_pc,             \* sequential mode: control point of __main__ and run()
    r_driver,         \* sequential mode: the scraper's driver: none, open, quit
    r_navs,           \* history: navigations started by run()
    r_results,        \* history: the outcome of each download_dataset call of
                      \* run(), as <<success, config name>>
    run_success_count,    \* run(): success_count
    run_failure_count,    \* run(): failure_count
    r_logged          \* run(): what was logged of "EXECUTION FAILED" and
                      \* "completed successfully", and the exception that left run()

runVars == <<r_pc, r_driver, r_navs, r_results, run_success_count, run_failure_count,
             r_logged>>

VARIABLES
    n_pc,             \* navigate_to_fund_composition_query: control point
    n_step,           \* index in NavTargets of the target being handled
    n_ctx,            \* the driver's addressing context: root or main
    n_resolved,       \* history: the targets resolved, in order
    n_clicks,         \* history: the targets clicked, in order
    expand_attempt,   \* the expand loop's expand_attempt
    submenu_expanded, \* the expand loop's submenu_expanded
    n_exc             \* the exception that left the navigation, or none

navVars == <<n_pc, n_step, n_ctx, n_resolved, n_clicks, expand_attempt,
             submenu_expanded, n_exc>>

VARIABLES
    f_pc,             \* find_element_safely: control point, or what it raised
    f_locators,       \* the number of locators of the call; a locator is its
                      \* index in the list
    f_attempt,        \* the loop's attempt
    f_i,              \* index of the locator the inner loop is at
    f_page,           \* the locators that match a present element now
    f_tried,          \* history of the call: <<attempt, locator, outcome>>
                      \* per wait
    f_sleeps,         \* history of the call: sleeps between passes
    f_result          \* the locator whose element was returned, 0 if none

findVars == <<f_pc, f_locators, f_attempt, f_i, f_page, f_tried, f_sleeps,
              f_result>>

VARIABLES
    e_pc,             \* ensure_main_frame: control point
    context,          \* the driver's addressing context: root or main
    e_entry,          \* history: the context when the call was entered
    e_ops,            \* history: per call, the driver commands it issued as
                      \* <<command, outcome>>
    e_calls           \* calls made so far (one per attempt of download_dataset)

frameVars == <<e_pc, context, e_entry, e_ops, e_calls>>

VARIABLES
    d_pc,             \* _select_from_custom_dropdown: control point
    d_calls,          \* calls made so far, all with the same option_text
    d_retry,          \* the loop variable retry of the call
    current_value,    \* the value the dropdown displays
    expanded,         \* the dropdown's option list is open (aria-expanded)
    d_ctx,            \* the driver's addressing context: root or main
    listbox_in_main_frame,
    render_after,     \* the page: the wheel increments after which the option
                      \* is among the rendered options of the open list
    scroll_attempt,   \* wheel increments sent in this attempt
    d_entry,          \* history: displayed value and context at the call's
                      \* entry, and the value at the entry of the call before
    d_log,            \* history: what the current attempt did to the page
    d_failed,         \* history: a frame switch of this call has failed
    d_result          \* what the call returned

dropVars == <<d_pc, d_calls, d_retry, current_value, expanded, d_ctx,
              listbox_in_main_frame, render_after, scroll_attempt, d_entry,
              d_log, d_failed, d_result>>

VARIABLES
    q_pc,             \* the radio steps of download_dataset: control point
    controls,         \* the page: the radio controls in document order, each
                      \* with its radiogroup, aria-label, visibility, enabledness
    aria_checked,     \* the page: the controls that are checked
    q_raised,         \* history: the steps in which a sibling check raised
    q_clicks,         \* history: the click targets chosen, as <<step, control>>
    q_tries,          \* history: the outcomes of the click methods of the
                      \* last step that had a target
    q_unchecked,      \* history: the steps whose target did not read
                      \* aria-checked 'true' after their clicks
    q_logged          \* history: the log, as <<step, level>>

radioVars == <<q_pc, controls, aria_checked, q_raised, q_clicks, q_tries,
               q_unchecked, q_logged>>

VARIABLES
    k_pc,             \* main.py, KOFIAScraper.run: control point
    k_i,              \* run: the config the download loop is at (1-based)
    k_attempt,        \* download_dataset: attempt of its retry loop
    k_downloaded,     \* self.downloaded_files
    k_success_count,  \* run: success_count
    k_failure_count,  \* run: failure_count
    k_j,              \* run: the pair the processing loop is at (1-based)
    k_processed,      \* history: the process_excel_file calls, as
                      \* <<file_path, dataset_config>>
    all_processed_data, \* self.all_processed_data, each frame as the
                      \* <<file it was read from, prefix of its columns>>
    k_driver          \* self.driver: "open" or "quit"

kofiaVars == <<k_pc, k_i, k_attempt, k_downloaded, k_success_count, k_failure_count,
               k_j, k_processed, all_processed_data, k_driver>>

otherVars == <<dropVars, radioVars, kofiaVars>>

vars == <<dir, waitVars, dsVars, parVars, runVars, navVars, findVars, frameVars,
          otherVars>>

\* what the actions of one component leave alone
notWaitVars == <<dsVars, parVars, runVars, navVars, findVars, frameVars, otherVars>>
notDsVars == <<waitVars, parVars, runVars, navVars, findVars, frameVars, otherVars>>
notParVars == <<dir, waitVars, dsVars, runVars, navVars, findVars, frameVars, otherVars>>
notRunVars == <<dir, waitVars, dsVars, parVars, frameVars, otherVars>>
notFrameVars == <<dir, waitVars, dsVars, parVars, runVars, navVars, findVars, otherVars>>
notDropVars == <<dir, waitVars, dsVars, parVars, runVars, navVars, findVars, frameVars,
                 radioVars, kofiaVars>>
notRadioVars == <<dir, waitVars, dsVars, parVars, runVars, navVars, findVars, frameVars,
                  dropVars, kofiaVars>>
notKofiaVars == <<dir, waitVars, dsVars, parVars, runVars, navVars, findVars, frameVars,
                  dropVars, radioVars>>

NoPath == <<>>

File(size, src) == [size |-> size, src |-> src]

Listing(d) == DOMAIN d

\* d with name n bound to file f
Put(d, n, f) == [m \in (DOMAIN d) \cup {n} |-> IF m = n THEN f ELSE d[m]]
\* d without name n
Del(d, n) == [m \in (DOMAIN d) \ {n} |-> d[m]]
\* os.rename(n, m): m is replaced when it exists
Rename(d, n, m) == Put(Del(d, n), m, d[n])

(***************************************************************************)
(* wait_for_download_completion                                            *)
(***************************************************************************)
\* new_files = current_files - initial_files
NewFiles(current_files, initial) == current_files \ initial

\* not fname.endswith(('.tmp', '.crdownload', '.part'))
QualifiesAnySuffix(fname) == TRUE
Qualifies(fname) == ~EndsWith(fname, InProgressSuffixes)

\* current_size == new_size and new_size > 0
SizeStable(cur, new) == cur = new /\ new > 0

\* while time.time() - start_time < timeout: list and diff the directory
WPoll ==
    /\ w_pc = "while"
    /\ w_clock < WaitTimeout
    /\ new_files' = NewFiles(Listing(dir), initial_files)
    /\ w_polls' = w_polls \cup {n \in NewFiles(Listing(dir), initial_files) : Qualifies(n)}
    /\ w_pc' = "for"
    /\ UNCHANGED <<dir, w_clock, initial_files, new_file_path, current_size,
                   w_k, w_samples, w_result>>
    /\ UNCHANGED notWaitVars

\* the loop condition is false: screenshot, raise TimeoutException
WTimeoutReturnsNone ==
    /\ w_pc = "while"
    /\ w_clock >= WaitTimeout
    /\ w_pc' = "returned"
    /\ w_result' = NoPath
    /\ UNCHANGED <<dir, w_clock, initial_files, new_files, new_file_path,
                   current_size, w_k, w_samples, w_polls>>
    /\ UNCHANGED notWaitVars
WTimeout ==
    /\ w_pc = "while"
    /\ w_clock >= WaitTimeout
    /\ w_pc' = "TimeoutException"
    /\ UNCHANGED <<dir, w_clock, initial_files, new_files, new_file_path,
                   current_size, w_k, w_samples, w_polls, w_result>>
    /\ UNCHANGED notWaitVars

\* for fname in new_files (a set: any order); a name with an in-progress
\* suffix is passed over
WForNext ==
    /\ w_pc = "for"
    /\ new_files # {}
    /\ \E fname \in new_files :
        /\ new_files' = new_files \ {fname}
        /\ IF Qualifies(fname)
             THEN /\ new_file_path' = fname
                  /\ current_size' = -1
                  /\ w_k' = 0
                  /\ w_samples' = <<>>
                  /\ w_pc' = "exists"
             ELSE /\ w_pc' = "for"
                  /\ UNCHANGED <<new_file_path, current_size, w_k, w_samples>>
    /\ UNCHANGED <<dir, w_clock, initial_files, w_polls, w_result>>
    /\ UNCHANGED notWaitVars

\* the for loop is exhausted: time.sleep(1), back to the while test
WSleep ==
    /\ w_pc = "for"
    /\ new_files = {}
    /\ w_clock' = w_clock + PollSleepTicks
    /\ w_pc' = "while"
    /\ UNCHANGED <<dir, initial_files, new_files, new_file_path, current_size,
                   w_k, w_samples, w_polls, w_result>>
    /\ UNCHANGED notWaitVars

\* for _ in range(5): time.sleep(0.2); if not os.path.exists(path): break
WExists ==
    /\ w_pc = "exists"
    /\ IF w_k < SizeSamples
         THEN /\ w_clock' = w_clock + SampleSleepTicks
              /\ w_k' = w_k + 1
              /\ w_pc' = IF new_file_path \in Listing(dir) THEN "getsize" ELSE "after"
         ELSE /\ w_pc' = "after"
              /\ UNCHANGED <<w_clock, w_k>>
    /\ UNCHANGED <<dir, initial_files, new_files, new_file_path, current_size,
                   w_samples, w_polls, w_result>>
    /\ UNCHANGED notWaitVars

\* new_size = os.path.getsize(path) (raises OSError when the file has gone
\* since the exists test); return on a stable nonzero size
WGetSize ==
    /\ w_pc = "getsize"
    /\ IF new_file_path \notin Listing(dir)
         THEN /\ w_pc' = "OSError"
              /\ UNCHANGED <<current_size, w_samples, w_result>>
         ELSE LET new_size == dir[new_file_path].size IN
              /\ w_samples' = Append(w_samples, new_size)
              /\ IF SizeStable(current_size, new_size)
                   THEN /\ w_result' = new_file_path
                        /\ w_pc' = "returned"
                        /\ UNCHANGED current_size
                   ELSE /\ current_size' = new_size
                        /\ w_pc' = "exists"
                        /\ UNCHANGED w_result
    /\ UNCHANGED <<dir, w_clock, initial_files, new_files, new_file_path, w_k,
                   w_polls>>
    /\ UNCHANGED notWaitVars

\* after the sampling loop: if new_file_path and os.path.exists(new_file_path):
\* return new_file_path
WAfter ==
    /\ w_pc = "after"
    /\ IF new_file_path \in Listing(dir)
         THEN /\ w_result' = new_file_path
              /\ w_pc' = "returned"
         ELSE /\ w_pc' = "for"
              /\ UNCHANGED w_result
    /\ UNCHANGED <<dir, w_clock, initial_files, new_files, new_file_path,
                   current_size, w_k, w_samples, w_polls>>
    /\ UNCHANGED notWaitVars

WaitStep == WPoll \/ WTimeout \/ WForNext \/ WSleep \/ WExists \/ WGetSize \/ WAfter

(***************************************************************************)
(* The directory's other writers while the detector runs: the browser      *)
(* writing the exported file, and a concurrent session renaming a file     *)
(***************************************************************************)
WaitRunning == w_pc \in {"while", "for", "exists", "getsize", "after"}

\* the browser starts the download under an in-progress name, or directly
\* under its final name
BrowserCreate ==
    /\ WaitRunning
    /\ \A n \in TempNames \cup {DlName, OtherName} : n \notin Listing(dir)
    /\ \E n \in TempNames \cup {DlName} : dir' = Put(dir, n, File(0, n))
    /\ UNCHANGED waitVars
    /\ UNCHANGED notWaitVars

\* the browser writes another block
BrowserWrite ==
    /\ WaitRunning
    /\ \E n \in (TempNames \cup {DlName}) \cap Listing(dir) :
        /\ dir[n].size < MaxSize
        /\ dir' = Put(dir, n, File(dir[n].size + 1, dir[n].src))
    /\ UNCHANGED waitVars
    /\ UNCHANGED notWaitVars

\* the browser renames the finished in-progress file to its final name
BrowserFinish ==
    /\ WaitRunning
    /\ \E n \in TempNames \cap Listing(dir) : dir' = Rename(dir, n, DlName)
    /\ UNCHANGED waitVars
    /\ UNCHANGED notWaitVars

\* a concurrent session renames the downloaded file to its own output name
OtherRename ==
    /\ WaitRunning
    /\ DlName \in Listing(dir)
    /\ dir' = Rename(dir, DlName, OtherName)
    /\ UNCHANGED waitVars
    /\ UNCHANGED notWaitVars

WaitEnv == BrowserCreate \/ BrowserWrite \/ BrowserFinish \/ OtherRename

InitWait ==
    /\ dir = (OldName :> File(1, OldName))
    /\ w_pc = "while"
    /\ w_clock = 0
    /\ initial_files = Listing(dir)
    /\ new_files = {}
    /\ new_file_path = NoPath
    /\ current_size = -1
    /\ w_k = 0
    /\ w_samples = <<>>
    /\ w_polls = {}
    /\ w_result = NoPath

\* the detector is not running
WaitOff ==
    /\ w_pc = "off"
    /\ w_clock = 0
    /\ initial_files = {}
    /\ new_files = {}
    /\ new_file_path = NoPath
    /\ current_size = -1
    /\ w_k = 0
    /\ w_samples = <<>>
    /\ w_polls = {}
    /\ w_result = NoPath

(***************************************************************************)
(* download_dataset, and the loop of its caller (run, lines 1878-1890;     *)
(* download_datasets_batch, lines 1972-1983)                               *)
(***************************************************************************)
\* the steps of one attempt, in the order of the source
StepOrder == <<"form", "search", "verify", "snapshot", "export", "wait",
               "sample", "rename">>

StepIndex(step) == CHOOSE i \in 1 .. Len(StepOrder) : StepOrder[i] = step
NextStep(step) == StepOrder[StepIndex(step) + 1]

\* the two families of exception the handlers of download_dataset tell apart:
\* the Selenium exceptions of the first except clause, and any other Exception
Selenium == "WebDriverException"
Other == "Exception"

\* what filling the form can raise: ensure_main_frame and the alert check
\* swallow everything; the dropdown driver re-raises the exception of its last
\* attempt, a Selenium one or a plain Exception ("Could not open dropdown",
\* "Could not find option"); the radio blocks re-raise Selenium exceptions and
\* raise plain Exception ("Could not find ... radio button")
FormRaises == {Selenium, Other}

\* except (NoSuchElementException, TimeoutException, ...) / except Exception
CaughtSeleniumOnly(kind) == kind = Selenium
Caught(kind) == kind \in {Selenium, Other}

\* first handler: the loop goes on to the next attempt, if there is one;
\* second handler: break
RetriesOneMore(kind, att) == kind = Selenium /\ att < MAX_RETRIES
Retries(kind, att) == kind = Selenium /\ att < MAX_RETRIES - 1

Upd(f, s, v) == [f EXCEPT ![s] = v]
Dataset(s) == s_batch[s][s_idx[s]]
InAttempt(s) == s_pc[s] \in {StepOrder[i] : i \in 1 .. Len(StepOrder)}

\* an exception of the given kind is raised at the current step of s
Raise(s, kind) ==
    /\ att_log' = Upd(att_log, s, Append(att_log[s], kind))
    /\ IF ~Caught(kind)
         THEN /\ s_pc' = Upd(s_pc, s, "escaped")
              /\ UNCHANGED attempt
         ELSE IF Retries(kind, attempt[s])
         THEN /\ s_pc' = Upd(s_pc, s, "form")
              /\ attempt' = Upd(attempt, s, attempt[s] + 1)
         ELSE /\ s_pc' = Upd(s_pc, s, "return")
              /\ UNCHANGED attempt

\* the current step of s ends normally
Advance(s) ==
    /\ s_pc' = Upd(s_pc, s, NextStep(s_pc[s]))
    /\ UNCHANGED <<attempt, att_log>>

\* the attempt of s notes what it found, clicked or raised
Trail(s, events) == ds_trail' = Upd(ds_trail, s, ds_trail[s] \o events)

\* lines 932-1376: main frame, lingering alert, period, fund type, region,
\* category, public/private, periodicity
DsForm(s) ==
    /\ s_pc[s] = "form"
    /\ \/ /\ Advance(s)
          /\ ds_trail' = Upd(ds_trail, s, <<>>)
       \/ /\ \E kind \in FormRaises : Raise(s, kind)
          /\ ds_trail' = Upd(ds_trail, s, <<"raise_form">>)
    /\ UNCHANGED <<dir, s_batch, s_idx, success, ds_initial_files,
                   downloaded_file_path, downloaded_files, results, pending, late>>
    /\ UNCHANGED notDsVars

\* a button step that clicks the first match when none is displayed
ButtonStepFirstMatch(s, button) ==
    \E displayed \in BOOLEAN :
        \/ /\ Advance(s)
           /\ Trail(s, IF displayed THEN <<"click_" \o button>>
                       ELSE <<"no_visible_" \o button, "click_" \o button>>)
        \/ /\ displayed
           /\ Raise(s, Selenium)
           /\ Trail(s, <<"raise_" \o button>>)

\* lines 1385-1510 and 1573-1690: the locators are tried in turn for a match
\* that is_displayed(); without one, NoSuchElementException before any click;
\* with one, it is scrolled into view and the click methods are tried until
\* one does not raise; when the last one raises too, its exception (a
\* Selenium one) is re-raised
ButtonStep(s, button) ==
    \E displayed \in BOOLEAN :
        IF displayed
        THEN \/ /\ Advance(s)
                /\ Trail(s, <<"click_" \o button>>)
             \/ /\ Raise(s, Selenium)
                /\ Trail(s, <<"raise_" \o button>>)
        ELSE /\ Raise(s, Selenium)
             /\ Trail(s, <<"no_visible_" \o button, "raise_" \o button>>)

\* lines 1378-1513: find the visible search button and click it
DsSearch(s) ==
    /\ s_pc[s] = "search"
    /\ ButtonStep(s, "search")
    /\ UNCHANGED <<dir, s_batch, s_idx, success, ds_initial_files,
                   downloaded_file_path, downloaded_files, results, pending, late>>
    /\ UNCHANGED notDsVars

\* a verification that gives the attempt up when it sees no result rows
DsVerifyAborts(s) ==
    /\ s_pc[s] = "verify"
    /\ \/ Advance(s) /\ Trail(s, <<"rows">>)
       \/ Raise(s, Selenium) /\ Trail(s, <<"no_rows", "raise_verify">>)
    /\ UNCHANGED <<dir, s_batch, s_idx, success, ds_initial_files,
                   downloaded_file_path, downloaded_files, results, pending, late>>
    /\ UNCHANGED notDsVars

\* lines 1515-1562: wait up to max_wait seconds for result rows; their
\* absence is only logged (with the page source saved for debugging)
DsVerify(s) ==
    /\ s_pc[s] = "verify"
    /\ Advance(s)
    /\ \E data_loaded \in BOOLEAN :
          Trail(s, IF data_loaded THEN <<"rows">> ELSE <<"no_rows">>)
    /\ UNCHANGED <<dir, s_batch, s_idx, success, ds_initial_files,
                   downloaded_file_path, downloaded_files, results, pending, late>>
    /\ UNCHANGED notDsVars

\* line 1564: initial_files = set(os.listdir(DOWNLOAD_DIR))
DsSnapshot(s) ==
    /\ s_pc[s] = "snapshot"
    /\ ds_initial_files' = Upd(ds_initial_files, s, Listing(dir))
    /\ Advance(s)
    /\ UNCHANGED <<dir, s_batch, s_idx, success, downloaded_file_path,
                   downloaded_files, results, pending, late, ds_trail>>
    /\ UNCHANGED notDsVars

\* lines 1566-1694: find the visible Excel button and click it; the browser
\* then has a download to write
DsExport(s) ==
    /\ s_pc[s] = "export"
    /\ ButtonStep(s, "export")
    /\ pending' = IF s_pc'[s] = NextStep("export")
                  THEN Upd(pending, s, ExportName(s, Dataset(s), attempt[s]))
                  ELSE pending
    /\ UNCHANGED <<dir, s_batch, s_idx, success, ds_initial_files,
                   downloaded_file_path, downloaded_files, results, late>>
    /\ UNCHANGED notDsVars

\* what one poll of wait_for_download_completion(initial_files) examines
CandidatesOwnOnly(s) ==
    {f \in NewFiles(Listing(dir), ds_initial_files[s]) :
        Qualifies(f) /\ dir[f].src[1] = s}
Candidates(s) ==
    {f \in NewFiles(Listing(dir), ds_initial_files[s]) : Qualifies(f)}

\* the detector of s stops polling while the browser has not written the
\* file of the export: that download has failed, or (a bounded number of
\* times) it is written later
StopWaiting(s) ==
    \/ /\ pending' = Upd(pending, s, NoPath)
       /\ UNCHANGED late
    \/ /\ pending[s] # NoPath
       /\ late < MaxLate
       /\ late' = late + 1
       /\ UNCHANGED pending

\* line 1696, the detector finds a candidate f and starts sampling it
DsWaitPick(s, f) ==
    /\ s_pc[s] = "wait"
    /\ f \in Candidates(s)
    /\ downloaded_file_path' = Upd(downloaded_file_path, s, f)
    /\ Advance(s)
    /\ StopWaiting(s)
    /\ UNCHANGED <<dir, s_batch, s_idx, success, ds_initial_files,
                   downloaded_files, results, ds_trail>>
    /\ UNCHANGED notDsVars

\* line 1696, no candidate until the timeout: TimeoutException
DsWaitTimeout(s) ==
    /\ s_pc[s] = "wait"
    /\ Candidates(s) = {}
    /\ Raise(s, Selenium)
    /\ Trail(s, <<"raise_wait">>)
    /\ StopWaiting(s)
    /\ UNCHANGED <<dir, s_batch, s_idx, success, ds_initial_files,
                   downloaded_file_path, downloaded_files, results>>
    /\ UNCHANGED notDsVars

\* line 1696, the sampling of the candidate ends: the path is returned if the
\* file is still there; if it has gone, os.path.getsize raises OSError or the
\* candidate is dropped and polling goes on
DsWaitSample(s) ==
    /\ s_pc[s] = "sample"
    /\ IF downloaded_file_path[s] \in Listing(dir)
         THEN Advance(s) /\ UNCHANGED ds_trail
         ELSE \/ Raise(s, Other) /\ Trail(s, <<"raise_wait">>)
              \/ /\ s_pc' = Upd(s_pc, s, "wait")
                 /\ UNCHANGED <<attempt, att_log, ds_trail>>
    /\ UNCHANGED <<dir, s_batch, s_idx, success, ds_initial_files,
                   downloaded_file_path, downloaded_files, results, pending, late>>
    /\ UNCHANGED notDsVars

\* lines 1699-1740: remove a stale {output_name}.xls, rename the new file to
\* it, record it, settle, break; os.rename on a file that has gone raises
\* OSError
DsRenameSkipped(s) ==
    /\ s_pc[s] = "rename"
    /\ success' = Upd(success, s, TRUE)
    /\ att_log' = Upd(att_log, s, Append(att_log[s], "ok"))
    /\ s_pc' = Upd(s_pc, s, "return")
    /\ downloaded_files' =
          Upd(downloaded_files, s,
              Append(downloaded_files[s], OutputName(Dataset(s))))
    /\ UNCHANGED <<dir, attempt, s_batch, s_idx, ds_initial_files,
                   downloaded_file_path, results, pending, late, ds_trail>>
    /\ UNCHANGED notDsVars
DsRename(s) ==
    /\ s_pc[s] = "rename"
    /\ IF downloaded_file_path[s] \in Listing(dir)
         THEN /\ dir' = Rename(dir, downloaded_file_path[s], OutputName(Dataset(s)))
              /\ downloaded_files' =
                    Upd(downloaded_files, s,
                        Append(downloaded_files[s], OutputName(Dataset(s))))
              /\ success' = Upd(success, s, TRUE)
              /\ att_log' = Upd(att_log, s, Append(att_log[s], "ok"))
              /\ s_pc' = Upd(s_pc, s, "return")
              /\ UNCHANGED <<attempt, ds_trail>>
         ELSE /\ Raise(s, Other)
              /\ Trail(s, <<"raise_rename">>)
              /\ UNCHANGED <<dir, downloaded_files, success>>
    /\ UNCHANGED <<s_batch, s_idx, ds_initial_files, downloaded_file_path,
                   results, pending, late>>
    /\ UNCHANGED notDsVars

\* return success (the locals of the call are gone); the caller records the
\* outcome and goes on to the next dataset of its batch, where
\* download_dataset starts with success = False
DsReturn(s) ==
    /\ s_pc[s] = "return"
    /\ results' = Upd(results, s, Append(results[s], <<success[s], Dataset(s)>>))
    /\ IF s_idx[s] < Len(s_batch[s])
         THEN /\ s_idx' = Upd(s_idx, s, s_idx[s] + 1)
              /\ s_pc' = Upd(s_pc, s, "form")
              /\ attempt' = Upd(attempt, s, 0)
              /\ success' = Upd(success, s, FALSE)
              /\ att_log' = Upd(att_log, s, <<>>)
         ELSE /\ s_pc' = Upd(s_pc, s, "done")
              /\ UNCHANGED <<s_idx, attempt, success, att_log>>
    /\ ds_initial_files' = Upd(ds_initial_files, s, {})
    /\ downloaded_file_path' = Upd(downloaded_file_path, s, NoPath)
    /\ ds_trail' = Upd(ds_trail, s, <<>>)
    /\ UNCHANGED <<dir, s_batch, downloaded_files, pending, late>>
    /\ UNCHANGED notDsVars

\* the browser of session s writes the file of its last export
BrowserDeliver(s) ==
    /\ pending[s] # NoPath
    /\ dir' = Put(dir, pending[s], File(1, <<s, pending[s][3]>>))
    /\ pending' = Upd(pending, s, NoPath)
    /\ UNCHANGED <<s_pc, s_batch, s_idx, attempt, success, ds_initial_files,
                   downloaded_file_path, downloaded_files, results, late, att_log,
                   ds_trail>>
    /\ UNCHANGED notDsVars

DsStep(s) ==
    \/ DsForm(s)
    \/ DsSearch(s)
    \/ DsVerify(s)
    \/ DsSnapshot(s)
    \/ DsExport(s)
    \/ \E f \in Listing(dir) : DsWaitPick(s, f)
    \/ DsWaitTimeout(s)
    \/ DsWaitSample(s)
    \/ DsRename(s)
    \/ DsReturn(s)
    \/ BrowserDeliver(s)

\* no session exists
DsOff ==
    /\ s_pc = [s \in Sessions |-> "off"]
    /\ s_batch = [s \in Sessions |-> <<>>]
    /\ s_idx = [s \in Sessions |-> 1]
    /\ attempt = [s \in Sessions |-> 0]
    /\ success = [s \in Sessions |-> FALSE]
    /\ ds_initial_files = [s \in Sessions |-> {}]
    /\ downloaded_file_path = [s \in Sessions |-> NoPath]
    /\ downloaded_files = [s \in Sessions |-> <<>>]
    /\ results = [s \in Sessions |-> <<>>]
    /\ pending = [s \in Sessions |-> NoPath]
    /\ late = 0
    /\ att_log = [s \in Sessions |-> <<>>]
    /\ ds_trail = [s \in Sessions |-> <<>>]

\* the sessions have navigated to the query form and start on their batches
InitDs(batches) ==
    /\ dir = (OldName :> File(1, <<0, 0>>))
    /\ s_pc = [s \in Sessions |-> IF batches[s] = <<>> THEN "off" ELSE "form"]
    /\ s_batch = batches
    /\ s_idx = [s \in Sessions |-> 1]
    /\ attempt = [s \in Sessions |-> 0]
    /\ success = [s \in Sessions |-> FALSE]
    /\ ds_initial_files = [s \in Sessions |-> {}]
    /\ downloaded_file_path = [s \in Sessions |-> NoPath]
    /\ downloaded_files = [s \in Sessions |-> <<>>]
    /\ results = [s \in Sessions |-> <<>>]
    /\ pending = [s \in Sessions |-> NoPath]
    /\ late = 0
    /\ att_log = [s \in Sessions |-> <<>>]
    /\ ds_trail = [s \in Sessions |-> <<>>]

\* sequential mode: session 1 has every dataset
SeqBatches == [s \in Sessions |-> IF s = 1 THEN [i \in 1 .. NumDatasets |-> i] ELSE <<>>]
\* parallel mode, reduced to one dataset per session
RaceBatches == [s \in Sessions |-> <<s>>]

(***************************************************************************)
(* download_datasets_batch and run_parallel                                *)
(***************************************************************************)
\* len(DATASET_CONFIGS)
NumConfigs == 11
\* ThreadPoolExecutor(max_workers=3): tabs 1, 2, 3
NumTabs == 3
\* download_dataset calls that may return False in one run
MaxFailures == 2

Tabs == 1 .. NumTabs

\* config['name']: the names of DATASET_CONFIGS are pairwise different
ConfigName(i) == <<"RawData", i>>
DATASET_CONFIGS ==
    [i \in 1 .. NumConfigs |-> [name |-> ConfigName(i), output_name |-> OutputName(i)]]

\* q[lo:hi] with hi taken as the last index, not the one after it
SliceInclusive(q, lo, hi) == SubSeq(q, lo + 1, IF hi + 1 < Len(q) THEN hi + 1 ELSE Len(q))
\* q[lo:hi]
Slice(q, lo, hi) == SubSeq(q, lo + 1, IF hi < Len(q) THEN hi ELSE Len(q))

\* batch_1 = DATASET_CONFIGS[0:4], batch_2 = [4:8], batch_3 = [8:11]
BatchBounds == <<<<0, 4>>, <<4, 8>>, <<8, 11>>>>
Batch(t) == Slice(DATASET_CONFIGS, BatchBounds[t][1], BatchBounds[t][2])

\* keep_alive as run_parallel passes it
KeepAlive == TRUE

\* any(dataset_config['name'] == name for _, name in results)
Recorded(res, name) == \E k \in 1 .. Len(res) : res[k][2] = name

\* the except branch: mark all remaining datasets as failed
RECURSIVE MarkRemainingAll(_, _)
MarkRemainingAll(batch, res) ==
    IF batch = <<>> THEN res
    ELSE MarkRemainingAll(Tail(batch), Append(res, <<FALSE, Head(batch).name>>))
RECURSIVE MarkRemaining(_, _)
MarkRemaining(batch, res) ==
    IF batch = <<>> THEN res
    ELSE MarkRemaining(Tail(batch),
                       IF Recorded(res, Head(batch).name) THEN res
                       ELSE Append(res, <<FALSE, Head(batch).name>>))

\* for config in DATASET_CONFIGS: if config['name'] == name: ... break
ConfigsNamed(name) ==
    LET hits == {i \in 1 .. NumConfigs : DATASET_CONFIGS[i].name = name}
    IN  IF hits = {} THEN <<>>
        ELSE <<DATASET_CONFIGS[CHOOSE i \in hits : \A j \in hits : i <= j]>>

\* failed_datasets, in the order of all_results
RECURSIVE FailedDatasets(_)
FailedDatasets(all) ==
    IF all = <<>> THEN <<>>
    ELSE (IF Head(all)[1] THEN <<>> ELSE ConfigsNamed(Head(all)[2]))
         \o FailedDatasets(Tail(all))

\* sum(1 for success, _ in res if success)
RECURSIVE SuccessCount(_)
SuccessCount(res) ==
    IF res = <<>> THEN 0
    ELSE (IF Head(res)[1] THEN 1 ELSE 0) + SuccessCount(Tail(res))

\* what one call of download_dataset returns
DownloadOutcomes == IF fails < MaxFailures THEN BOOLEAN ELSE {TRUE}

\* executor.submit(download_datasets_batch, batch_t, t, False, True), in the
\* order 1, 2, 3 with a sleep between
PSubmit(t) ==
    /\ p_pc = "submit"
    /\ t_pc[t] = "unstarted"
    /\ \A u \in Tabs : u < t => t_pc[u] # "unstarted"
    /\ t_pc' = Upd(t_pc, t, "init")
    /\ p_pc' = IF t = NumTabs THEN "collect" ELSE "submit"
    /\ UNCHANGED <<t_results, browser, t_scraper, all_results, collected,
                   active_scrapers, failed_datasets, retry_results,
                   final_tally, fails, calls, retry_log, navs>>
    /\ UNCHANGED notParVars

\* scraper = KOFIAScraper(...): the driver starts, or the constructor raises
WInit(t) ==
    /\ t_pc[t] = "init"
    /\ \/ /\ browser' = Upd(browser, t, "open")
          /\ t_pc' = Upd(t_pc, t, "navigate")
       \/ /\ t_pc' = Upd(t_pc, t, "except")
          /\ UNCHANGED browser
    /\ UNCHANGED <<p_pc, t_results, t_scraper, all_results, collected,
                   active_scrapers, failed_datasets, retry_results,
                   final_tally, fails, calls, retry_log, navs>>
    /\ UNCHANGED notParVars

\* scraper.navigate_to_fund_composition_query(): reaches the form, or raises
WNavigate(t) ==
    /\ t_pc[t] = "navigate"
    /\ navs' = Upd(navs, t, navs[t] + 1)
    /\ \E ok \in BOOLEAN : t_pc' = Upd(t_pc, t, IF ok THEN "loop" ELSE "except")
    /\ UNCHANGED <<p_pc, t_results, browser, t_scraper, all_results, collected,
                   active_scrapers, failed_datasets, retry_results,
                   final_tally, fails, calls, retry_log>>
    /\ UNCHANGED notParVars

\* one iteration of the batch loop: success = scraper.download_dataset(config),
\* results.append((success, name))
WDownload(t) ==
    /\ t_pc[t] = "loop"
    /\ Len(t_results[t]) < Len(Batch(t))
    /\ LET config == Batch(t)[Len(t_results[t]) + 1]
       IN  \E ok \in DownloadOutcomes :
               /\ t_results' = Upd(t_results, t, Append(t_results[t], <<ok, config.name>>))
               /\ fails' = IF ok THEN fails ELSE fails + 1
               /\ calls' = [calls EXCEPT ![config.name] = @ + 1]
    /\ UNCHANGED <<p_pc, t_pc, browser, t_scraper, all_results, collected,
                   active_scrapers, failed_datasets, retry_results,
                   final_tally, retry_log, navs>>
    /\ UNCHANGED notParVars

\* a statement of the batch loop raises before the dataset's result is
\* recorded: control passes to the except branch with the results so far
WLoopRaise(t) ==
    /\ t_pc[t] = "loop"
    /\ Len(t_results[t]) < Len(Batch(t))
    /\ t_pc' = Upd(t_pc, t, "except")
    /\ UNCHANGED <<p_pc, t_results, browser, t_scraper, all_results, collected,
                   active_scrapers, failed_datasets, retry_results,
                   final_tally, fails, calls, retry_log, navs>>
    /\ UNCHANGED notParVars

\* the loop is over: the browser is quit unless keep_alive,
\* return (results, scraper)
WFinish(t) ==
    /\ t_pc[t] = "loop"
    /\ Len(t_results[t]) = Len(Batch(t))
    /\ IF ~KeepAlive /\ browser[t] = "open"
       THEN browser' = Upd(browser, t, "quit") /\ t_scraper' = Upd(t_scraper, t, FALSE)
       ELSE UNCHANGED browser /\ t_scraper' = Upd(t_scraper, t, TRUE)
    /\ t_pc' = Upd(t_pc, t, "returned")
    /\ UNCHANGED <<p_pc, t_results, all_results, collected,
                   active_scrapers, failed_datasets, retry_results,
                   final_tally, fails, calls, retry_log, navs>>
    /\ UNCHANGED notParVars

\* a worker that lets the exception out of download_datasets_batch
WExceptRaises(t) ==
    /\ t_pc[t] = "except"
    /\ t_pc' = Upd(t_pc, t, "raised")
    /\ UNCHANGED <<p_pc, t_results, browser, t_scraper, all_results, collected,
                   active_scrapers, failed_datasets, retry_results,
                   final_tally, fails, calls, retry_log, navs>>
    /\ UNCHANGED notParVars

\* except Exception: the remaining datasets are recorded as failed, the
\* browser is quit, return (results, None)
WExcept(t) ==
    /\ t_pc[t] = "except"
    /\ t_results' = Upd(t_results, t, MarkRemaining(Batch(t), t_results[t]))
    /\ browser' = Upd(browser, t, IF browser[t] = "open" THEN "quit" ELSE browser[t])
    /\ t_scraper' = Upd(t_scraper, t, FALSE)
    /\ t_pc' = Upd(t_pc, t, "returned")
    /\ UNCHANGED <<p_pc, all_results, collected,
                   active_scrapers, failed_datasets, retry_results,
                   final_tally, fails, calls, retry_log, navs>>
    /\ UNCHANGED notParVars

\* one iteration of the as_completed loop, storing every returned tab
PCollectKeepsAll(t) ==
    /\ p_pc = "collect"
    /\ t_pc[t] = "returned"
    /\ t \notin collected
    /\ all_results' = all_results \o t_results[t]
    /\ active_scrapers' = Append(active_scrapers, t)
    /\ collected' = collected \cup {t}
    /\ UNCHANGED <<p_pc, t_pc, t_results, browser, t_scraper,
                   failed_datasets, retry_results,
                   final_tally, fails, calls, retry_log, navs>>
    /\ UNCHANGED notParVars

\* one iteration of the as_completed loop: a finished future is consumed,
\* all_results.extend(batch_results), the scraper is stored if it is alive
PCollect(t) ==
    /\ p_pc = "collect"
    /\ t_pc[t] = "returned"
    /\ t \notin collected
    /\ all_results' = all_results \o t_results[t]
    /\ active_scrapers' = IF t_scraper[t] /\ browser[t] # "none"
                          THEN Append(active_scrapers, t)
                          ELSE active_scrapers
    /\ collected' = collected \cup {t}
    /\ UNCHANGED <<p_pc, t_pc, t_results, browser, t_scraper,
                   failed_datasets, retry_results,
                   final_tally, fails, calls, retry_log, navs>>
    /\ UNCHANGED notParVars

\* the summary and the choice of the retry pass as soon as one future is
\* collected
PSummaryAfterFirstFuture ==
    /\ p_pc = "collect"
    /\ collected # {}
    /\ LET success_count == SuccessCount(all_results)
           failure_count == Len(all_results) - success_count
           failed == IF failure_count > 0 THEN FailedDatasets(all_results) ELSE <<>>
       IN  /\ failed_datasets' = failed
           /\ p_pc' = IF failure_count > 0 /\ failed # <<>> /\ active_scrapers # <<>>
                      THEN "retry" ELSE "cleanup"
    /\ UNCHANGED <<t_pc, t_results, browser, t_scraper, all_results, collected,
                   active_scrapers, retry_results,
                   final_tally, fails, calls, retry_log, navs>>
    /\ UNCHANGED notParVars

\* after the executor block: success_count, failure_count, failed_datasets,
\* and the choice between the retry pass and the cleanup
PSummary ==
    /\ p_pc = "collect"
    /\ collected = Tabs
    /\ LET success_count == SuccessCount(all_results)
           failure_count == Len(all_results) - success_count
           failed == IF failure_count > 0 THEN FailedDatasets(all_results) ELSE <<>>
       IN  /\ failed_datasets' = failed
           /\ p_pc' = IF failure_count > 0 /\ failed # <<>> /\ active_scrapers # <<>>
                      THEN "retry" ELSE "cleanup"
    /\ UNCHANGED <<t_pc, t_results, browser, t_scraper, all_results, collected,
                   active_scrapers, retry_results,
                   final_tally, fails, calls, retry_log, navs>>
    /\ UNCHANGED notParVars

\* retry_tab_id = list(active_scrapers.keys())[0]
RetryTab == active_scrapers[1]

\* one iteration of the retry loop on retry_scraper
PRetry ==
    /\ p_pc = "retry"
    /\ Len(retry_results) < Len(failed_datasets)
    /\ LET config == failed_datasets[Len(retry_results) + 1]
       IN  \E ok \in DownloadOutcomes :
               /\ retry_results' = Append(retry_results, <<ok, config.name>>)
               /\ fails' = IF ok THEN fails ELSE fails + 1
               /\ retry_log' = Append(retry_log, <<config.name, RetryTab, browser[RetryTab]>>)
    /\ UNCHANGED <<p_pc, t_pc, t_results, browser, t_scraper, all_results,
                   collected, active_scrapers, failed_datasets,
                   final_tally, calls, navs>>
    /\ UNCHANGED notParVars

\* final_success = success_count + retry_success_count
FinalSuccessRetryOnly(all, retry) == SuccessCount(retry)
FinalSuccess(all, retry) == SuccessCount(all) + SuccessCount(retry)

\* the names logged under "Still failed after retry"
RECURSIVE StillFailed(_)
StillFailed(retry) ==
    IF retry = <<>> THEN <<>>
    ELSE (IF Head(retry)[1] THEN <<>> ELSE <<Head(retry)[2]>>) \o StillFailed(Tail(retry))

\* the retry loop is over: final_success, final_failure and, when
\* final_failure > 0, the list of the datasets still failed
PFinal ==
    /\ p_pc = "retry"
    /\ Len(retry_results) = Len(failed_datasets)
    /\ LET final_success == FinalSuccess(all_results, retry_results)
           final_failure == Len(DATASET_CONFIGS) - final_success
       IN  final_tally' = <<final_success, final_failure,
                            IF final_failure > 0 THEN StillFailed(retry_results) ELSE <<>> >>
    /\ p_pc' = "cleanup"
    /\ UNCHANGED <<t_pc, t_results, browser, t_scraper, all_results, collected,
                   active_scrapers, failed_datasets, retry_results,
                   fails, calls, retry_log, navs>>
    /\ UNCHANGED notParVars

\* cleanup: scraper.driver.quit() for every stored scraper
PCleanup ==
    /\ p_pc = "cleanup"
    /\ browser' = [t \in Tabs |-> IF t \in {active_scrapers[k] : k \in 1 .. Len(active_scrapers)}
                                       /\ browser[t] = "open"
                                  THEN "quit" ELSE browser[t]]
    /\ p_pc' = "end"
    /\ UNCHANGED <<t_pc, t_results, t_scraper, all_results, collected,
                   active_scrapers, failed_datasets, retry_results,
                   final_tally, fails, calls, retry_log, navs>>
    /\ UNCHANGED notParVars

\* run_parallel is not running
ParOff ==
    /\ p_pc = "off"
    /\ t_pc = [t \in Tabs |-> "unstarted"]
    /\ t_results = [t \in Tabs |-> <<>>]
    /\ browser = [t \in Tabs |-> "none"]
    /\ t_scraper = [t \in Tabs |-> FALSE]
    /\ all_results = <<>>
    /\ collected = {}
    /\ active_scrapers = <<>>
    /\ failed_datasets = <<>>
    /\ retry_results = <<>>
    /\ final_tally = <<>>
    /\ fails = 0
    /\ calls = [n \in {ConfigName(i) : i \in 1 .. NumConfigs} |-> 0]
    /\ retry_log = <<>>
    /\ navs = [t \in Tabs |-> 0]

\* run_parallel starts: all_results = [], active_scrapers = {}
InitPar ==
    /\ dir = (OldName :> File(1, <<0, 0>>))
    /\ p_pc = "submit"
    /\ t_pc = [t \in Tabs |-> "unstarted"]
    /\ t_results = [t \in Tabs |-> <<>>]
    /\ browser = [t \in Tabs |-> "none"]
    /\ t_scraper = [t \in Tabs |-> FALSE]
    /\ all_results = <<>>
    /\ collected = {}
    /\ active_scrapers = <<>>
    /\ failed_datasets = <<>>
    /\ retry_results = <<>>
    /\ final_tally = <<>>
    /\ fails = 0
    /\ calls = [n \in {ConfigName(i) : i \in 1 .. NumConfigs} |-> 0]
    /\ retry_log = <<>>
    /\ navs = [t \in Tabs |-> 0]

NextPar ==
    \/ \E t \in Tabs : PSubmit(t)
    \/ \E t \in Tabs : WInit(t)
    \/ \E t \in Tabs : WNavigate(t)
    \/ \E t \in Tabs : WDownload(t)
    \/ \E t \in Tabs : WLoopRaise(t)
    \/ \E t \in Tabs : WFinish(t)
    \/ \E t \in Tabs : WExcept(t)
    \/ \E t \in Tabs : PCollect(t)
    \/ PSummary
    \/ PRetry
    \/ PFinal
    \/ PCleanup

(***************************************************************************)
(* find_element_safely                                                     *)
(***************************************************************************)
\* the exceptions the inner try catches
FindCaught == {"NoSuchElementException", "TimeoutException",
               "StaleElementReferenceException"}

\* what WebDriverWait(...).until(presence_of_element_located(locator)) does
\* for locator i: the element when one is present, TimeoutException when none
\* is, and on any page a stale reference or an error of the driver
WaitOutcomes(i) ==
    (IF i \in f_page THEN {"element"} ELSE {"TimeoutException"})
        \cup {"StaleElementReferenceException", "WebDriverException"}

\* what the history keeps of a wait: the element, an exception that was
\* caught, or the exception that left the function
Tried(out) == IF out \in FindCaught THEN "caught" ELSE out

\* the page between two passes: any of the locators may match
Pages == SUBSET (1 .. f_locators)

\* find_element_safely is not running
FindOff ==
    /\ f_pc = "off"
    /\ f_locators = 0
    /\ f_attempt = 0
    /\ f_i = 1
    /\ f_page = {}
    /\ f_tried = <<>>
    /\ f_sleeps = 0
    /\ f_result = 0

\* find_element_safely(locators) is entered with n locators on a page
FindCall(n, page) ==
    /\ f_pc' = "for"
    /\ f_locators' = n
    /\ f_attempt' = 0
    /\ f_i' = 1
    /\ f_page' = page
    /\ f_tried' = <<>>
    /\ f_sleeps' = 0
    /\ f_result' = 0

\* the caller has taken the result
FindDone ==
    /\ f_pc' = "off"
    /\ f_locators' = 0
    /\ f_attempt' = 0
    /\ f_i' = 1
    /\ f_page' = {}
    /\ f_tried' = <<>>
    /\ f_sleeps' = 0
    /\ f_result' = 0

\* one wait of the inner loop that goes on to the further locators after an
\* element was found
FTryKeepsLooking ==
    /\ f_pc = "for"
    /\ f_i <= f_locators
    /\ \E out \in WaitOutcomes(f_i) :
          /\ f_tried' = Append(f_tried, <<f_attempt, f_i, Tried(out)>>)
          /\ \/ /\ out = "element"
                /\ f_result' = f_i
                /\ f_i' = f_i + 1
                /\ f_pc' = IF f_i = f_locators THEN "returned" ELSE f_pc
             \/ /\ out \in FindCaught
                /\ f_i' = f_i + 1
                /\ UNCHANGED <<f_pc, f_result>>
             \/ /\ out \notin FindCaught \cup {"element"}
                /\ f_pc' = out
                /\ UNCHANGED <<f_i, f_result>>
    /\ UNCHANGED <<f_locators, f_attempt, f_page, f_sleeps>>
    /\ UNCHANGED <<runVars, navVars, notRunVars>>

\* one wait of the inner loop: return the element, or catch the exception
\* and go to the next locator; any other exception leaves the function
FTry ==
    /\ f_pc = "for"
    /\ f_i <= f_locators
    /\ \E out \in WaitOutcomes(f_i) :
          /\ f_tried' = Append(f_tried, <<f_attempt, f_i, Tried(out)>>)
          /\ \/ /\ out = "element"
                /\ f_result' = f_i
                /\ f_pc' = "returned"
                /\ UNCHANGED f_i
             \/ /\ out \in FindCaught
                /\ f_i' = f_i + 1
                /\ UNCHANGED <<f_pc, f_result>>
             \/ /\ out \notin FindCaught \cup {"element"}
                /\ f_pc' = out
                /\ UNCHANGED <<f_i, f_result>>
    /\ UNCHANGED <<f_locators, f_attempt, f_page, f_sleeps>>
    /\ UNCHANGED <<runVars, navVars, notRunVars>>

\* the end of a pass that gives up one pass early
FPassEndOnePassShort ==
    /\ f_pc = "for"
    /\ f_i > f_locators
    /\ IF f_attempt < MAX_RETRIES - 2
       THEN /\ f_sleeps' = f_sleeps + 1
            /\ f_attempt' = f_attempt + 1
            /\ f_i' = 1
            /\ \E page \in Pages : f_page' = page
            /\ UNCHANGED f_pc
       ELSE /\ f_pc' = "NoSuchElementException"
            /\ UNCHANGED <<f_sleeps, f_attempt, f_i, f_page>>
    /\ UNCHANGED <<f_locators, f_tried, f_result>>
    /\ UNCHANGED <<runVars, navVars, notRunVars>>

\* the end of a pass: sleep and start the next pass while
\* attempt < MAX_RETRIES - 1, else raise NoSuchElementException
FPassEnd ==
    /\ f_pc = "for"
    /\ f_i > f_locators
    /\ IF f_attempt < MAX_RETRIES - 1
       THEN /\ f_sleeps' = f_sleeps + 1
            /\ f_attempt' = f_attempt + 1
            /\ f_i' = 1
            /\ \E page \in Pages : f_page' = page
            /\ UNCHANGED f_pc
       ELSE /\ f_pc' = "NoSuchElementException"
            /\ UNCHANGED <<f_sleeps, f_attempt, f_i, f_page>>
    /\ UNCHANGED <<f_locators, f_tried, f_result>>
    /\ UNCHANGED <<runVars, navVars, notRunVars>>

FindStep == FTry \/ FPassEnd

(***************************************************************************)
(* navigate_to_fund_composition_query                                      *)
(***************************************************************************)
\* the targets the navigation resolves, in the order of the code, and the
\* number of locators of each (NAV_FUND_TAB, fund_industry_locators,
\* mgmt_stats_locators, expand_icon_locators, asset_weight_locators,
\* trend_tab_locators)
NavTargets == <<"fund_tab", "fund_industry", "mgmt_stats", "expand_icon",
                "asset_weight", "trend_tab">>
LocatorCount == <<5, 1, 1, 3, 6, 4>>
\* mgmt_stats is resolved and scrolled into view, never clicked
IsClicked(target) == target # "mgmt_stats"
\* max_expand_attempts
max_expand_attempts == 3

NavRaise(exc) ==
    /\ n_pc' = "raised"
    /\ n_exc' = exc

\* self.driver.get(BASE_URL)
NGet ==
    /\ n_pc = "get"
    /\ \/ n_pc' = "frame" /\ UNCHANGED n_exc
       \/ NavRaise("WebDriverException")
    /\ UNCHANGED <<n_step, n_ctx, n_resolved, n_clicks, expand_attempt, submenu_expanded>>
    /\ UNCHANGED <<runVars, findVars, notRunVars>>

\* self.driver.switch_to.frame("main"), or screenshot and raise
NFrame ==
    /\ n_pc = "frame"
    /\ \/ /\ n_ctx' = "main"
          /\ n_pc' = "resolve"
          /\ UNCHANGED n_exc
       \/ /\ NavRaise("NoSuchFrameException")
          /\ UNCHANGED n_ctx
    /\ UNCHANGED <<n_step, n_resolved, n_clicks, expand_attempt, submenu_expanded>>
    /\ UNCHANGED <<runVars, findVars, notRunVars>>

\* self.find_element_safely(<locators of the target>) is called
NResolve ==
    /\ n_pc = "resolve"
    /\ f_pc = "off"
    /\ \E page \in SUBSET (1 .. LocatorCount[n_step]) :
           FindCall(LocatorCount[n_step], page)
    /\ n_pc' = "resolving"
    /\ UNCHANGED <<n_step, n_ctx, n_resolved, n_clicks, expand_attempt,
                   submenu_expanded, n_exc>>
    /\ UNCHANGED <<runVars, notRunVars>>

\* find_element_safely returned an element that is clicked although the
\* call for the next target has not been made
NResolvedClicksNext ==
    /\ n_pc = "resolving"
    /\ f_pc \notin {"off", "for"}
    /\ FindDone
    /\ IF f_pc = "returned"
       THEN /\ n_resolved' = Append(n_resolved, NavTargets[n_step])
            /\ IF n_step < Len(NavTargets)
               THEN n_step' = n_step + 1 /\ n_pc' = "click"
               ELSE n_pc' = "click" /\ UNCHANGED n_step
            /\ UNCHANGED n_exc
       ELSE /\ NavRaise(f_pc)
            /\ UNCHANGED <<n_step, n_resolved>>
    /\ UNCHANGED <<n_ctx, n_clicks, expand_attempt, submenu_expanded>>
    /\ UNCHANGED <<runVars, notRunVars>>

\* find_element_safely returned the element (the target is resolved: go on
\* to its click, or for mgmt_stats to the next target), or raised: a
\* NoSuchElementException of the sidebar steps is logged and re-raised, any
\* other exception propagates
NResolved ==
    /\ n_pc = "resolving"
    /\ f_pc \notin {"off", "for"}
    /\ FindDone
    /\ IF f_pc = "returned"
       THEN /\ n_resolved' = Append(n_resolved, NavTargets[n_step])
            /\ IF IsClicked(NavTargets[n_step])
               THEN n_pc' = "click" /\ UNCHANGED n_step
               ELSE n_pc' = "resolve" /\ n_step' = n_step + 1
            /\ UNCHANGED n_exc
       ELSE /\ NavRaise(f_pc)
            /\ UNCHANGED <<n_step, n_resolved>>
    /\ UNCHANGED <<n_ctx, n_clicks, expand_attempt, submenu_expanded>>
    /\ UNCHANGED <<runVars, notRunVars>>

\* the click of the resolved target (fund_tab.click(), or
\* actions.move_to_element(x).click().perform(); for the expand icon a
\* JavaScript click when ActionChains fails): it is done, or it raises
NClick ==
    /\ n_pc = "click"
    /\ \/ /\ n_clicks' = Append(n_clicks, NavTargets[n_step])
          /\ IF NavTargets[n_step] = "expand_icon"
             THEN n_pc' = "check" /\ UNCHANGED n_step
             ELSE IF n_step = Len(NavTargets)
                  THEN n_pc' = "ready" /\ UNCHANGED n_step
                  ELSE n_pc' = "resolve" /\ n_step' = n_step + 1
          /\ UNCHANGED n_exc
       \/ /\ NavRaise("WebDriverException")
          /\ UNCHANGED <<n_clicks, n_step>>
    /\ UNCHANGED <<n_ctx, n_resolved, expand_attempt, submenu_expanded>>
    /\ UNCHANGED <<runVars, findVars, notRunVars>>

\* the check after an expand click: the submenu item is displayed
\* (submenu_expanded = True, break), or it is not or cannot be read: the next
\* expand attempt, and after max_expand_attempts the navigation goes on anyway
NCheck ==
    /\ n_pc = "check"
    /\ \E displayed \in BOOLEAN :
          IF displayed
          THEN /\ submenu_expanded' = TRUE
               /\ n_pc' = "resolve"
               /\ n_step' = n_step + 1
               /\ UNCHANGED expand_attempt
          ELSE /\ expand_attempt' = expand_attempt + 1
               /\ IF expand_attempt + 1 < max_expand_attempts
                  THEN n_pc' = "click" /\ UNCHANGED n_step
                  ELSE n_pc' = "resolve" /\ n_step' = n_step + 1
               /\ UNCHANGED submenu_expanded
    /\ UNCHANGED <<n_ctx, n_resolved, n_clicks, n_exc>>
    /\ UNCHANGED <<runVars, findVars, notRunVars>>

NavStep == NGet \/ NFrame \/ NResolve \/ NResolved \/ NClick \/ NCheck

\* the navigation is not running
NavOff ==
    /\ n_pc = "off"
    /\ n_step = 1
    /\ n_ctx = "root"
    /\ n_resolved = <<>>
    /\ n_clicks = <<>>
    /\ expand_attempt = 0
    /\ submenu_expanded = FALSE
    /\ n_exc = "none"

(***************************************************************************)
(* ensure_main_frame, as download_dataset calls it at the start of each    *)
(* attempt                                                                 *)
(***************************************************************************)
Contexts == {"root", "main"}

\* the current call's commands with one more
Issued(op, outcome) ==
    [e_ops EXCEPT ![Len(e_ops)] = Append(@, <<op, outcome>>)]

\* self.ensure_main_frame() is called in whatever context the steps before
\* it left the driver
ECall ==
    /\ e_pc = "idle"
    /\ e_calls < MAX_RETRIES
    /\ \E c \in Contexts : context' = c /\ e_entry' = c
    /\ e_ops' = Append(e_ops, <<>>)
    /\ e_calls' = e_calls + 1
    /\ e_pc' = "probe"
    /\ UNCHANGED notFrameVars

\* self.driver.find_element(By.XPATH, "//img[@alt='...']"): the landmark of
\* the main frame is found, or anything is raised and caught by the bare
\* except
EProbe ==
    /\ e_pc = "probe"
    /\ \/ /\ context = "main"
          /\ e_ops' = Issued("find_element", "ok")
          /\ e_pc' = "returned"
       \/ /\ \E exc \in {"NoSuchElementException", "WebDriverException"} :
                e_ops' = Issued("find_element", exc)
          /\ e_pc' = "default_content"
    /\ UNCHANGED <<context, e_entry, e_calls>>
    /\ UNCHANGED notFrameVars

\* self.driver.switch_to.default_content(), or except Exception: log
EDefaultContent ==
    /\ e_pc = "default_content"
    /\ \/ /\ context' = "root"
          /\ e_ops' = Issued("default_content", "ok")
          /\ e_pc' = "frame"
       \/ /\ e_ops' = Issued("default_content", "WebDriverException")
          /\ e_pc' = "returned"
          /\ UNCHANGED context
    /\ UNCHANGED <<e_entry, e_calls>>
    /\ UNCHANGED notFrameVars

\* a switch into the frame whose failure leaves the function
EFrameRaises ==
    /\ e_pc = "frame"
    /\ \/ /\ context' = "main"
          /\ e_ops' = Issued("frame", "ok")
          /\ e_pc' = "returned"
       \/ /\ e_ops' = Issued("frame", "NoSuchFrameException")
          /\ e_pc' = "NoSuchFrameException"
          /\ UNCHANGED context
    /\ UNCHANGED <<e_entry, e_calls>>
    /\ UNCHANGED notFrameVars

\* self.driver.switch_to.frame("main"), or except Exception: log
EFrame ==
    /\ e_pc = "frame"
    /\ \/ /\ context' = "main"
          /\ e_ops' = Issued("frame", "ok")
       \/ /\ e_ops' = Issued("frame", "NoSuchFrameException")
          /\ UNCHANGED context
    /\ e_pc' = "returned"
    /\ UNCHANGED <<e_entry, e_calls>>
    /\ UNCHANGED notFrameVars

\* the call has returned; the attempt goes on
EReturn ==
    /\ e_pc = "returned"
    /\ e_pc' = "idle"
    /\ UNCHANGED <<context, e_entry, e_ops, e_calls>>
    /\ UNCHANGED notFrameVars

\* ensure_main_frame is not running
FrameOff ==
    /\ e_pc = "off"
    /\ context = "root"
    /\ e_entry = "root"
    /\ e_ops = <<>>
    /\ e_calls = 0

\* download_dataset is about to start its first attempt
InitFrame ==
    /\ dir = (OldName :> File(1, <<0, 0>>))
    /\ e_pc = "idle"
    /\ context = "main"
    /\ e_entry = "main"
    /\ e_ops = <<>>
    /\ e_calls = 0

NextFrame == ECall \/ EProbe \/ EDefaultContent \/ EFrame \/ EReturn

(***************************************************************************)
(* _select_from_custom_dropdown(button_locators, option_text, ...)         *)
(***************************************************************************)
\* max_retries=3
max_retries == 3
\* max_scroll_attempts = 50
max_scroll_attempts == 50
\* successive calls with the same option_text
MaxCalls == 2

\* the dropdown displays option_text, or something else
option_text == "target"
Values == {option_text, "other"}

\* the pages: the option is rendered when the list opens, after one wheel
\* increment, after the last increment the loop sends, or not within them
RenderAfter == {0, 1, max_scroll_attempts, max_scroll_attempts + 1}

\* the option is among the rendered options after k wheel increments
Rendered(k) == k >= render_after

DLog(events) == d_log' = d_log \o events

\* an exception leaves the try block of the attempt
DRaise ==
    /\ d_pc' = "except"
    /\ UNCHANGED <<d_retry, d_result>>

\* return True
DReturn ==
    /\ d_pc' = "returned"
    /\ d_result' = TRUE
    /\ UNCHANGED d_retry

\* the next pass of for retry in range(max_retries)
DNextAttempt ==
    /\ d_retry' = d_retry + 1
    /\ d_pc' = "button"
    /\ d_log' = <<>>
    /\ scroll_attempt' = 0
    /\ listbox_in_main_frame' = FALSE
    /\ UNCHANGED d_result

\* the function is called, in the state the page was left in
DCall ==
    /\ d_pc \in {"idle", "returned", "raised"}
    /\ d_calls < MaxCalls
    /\ d_calls' = d_calls + 1
    /\ d_pc' = "button"
    /\ d_retry' = 0
    /\ d_entry' = [value |-> current_value, ctx |-> d_ctx,
                    before |-> IF d_calls = 0 THEN "none" ELSE d_entry.value]
    /\ d_log' = <<>>
    /\ d_failed' = FALSE
    /\ d_result' = "none"
    /\ scroll_attempt' = 0
    /\ listbox_in_main_frame' = FALSE
    /\ UNCHANGED <<current_value, expanded, d_ctx, render_after>>
    /\ UNCHANGED notDropVars

\* lines 284-303: the visible dropdown button among the matches, else
\* find_element_safely, which returns an element or raises
DButton ==
    /\ d_pc = "button"
    /\ \/ d_pc' = "current" /\ UNCHANGED <<d_retry, d_result, d_log>>
       \/ DRaise /\ DLog(<<"exc">>)
    /\ UNCHANGED <<d_calls, current_value, expanded, d_ctx, listbox_in_main_frame,
                   render_after, scroll_attempt, d_entry, d_failed>>
    /\ UNCHANGED notDropVars

\* a check of the current value that never skips
DCurrentNeverSkips ==
    /\ d_pc = "current"
    /\ \E readable \in BOOLEAN :
          /\ d_pc' = "open"
          /\ DLog(IF readable THEN <<>> ELSE <<"unreadable">>)
          /\ UNCHANGED <<d_retry, d_result>>
    /\ UNCHANGED <<d_calls, current_value, expanded, d_ctx, listbox_in_main_frame,
                   render_after, scroll_attempt, d_entry, d_failed>>
    /\ UNCHANGED notDropVars

\* lines 305-322: the current value is read and, when it is option_text, the
\* call returns True; when it cannot be read the attempt goes on
DCurrent ==
    /\ d_pc = "current"
    /\ \E readable \in BOOLEAN :
          IF readable /\ current_value = option_text
          THEN DReturn /\ UNCHANGED d_log
          ELSE /\ d_pc' = "open"
               /\ DLog(IF readable THEN <<>> ELSE <<"unreadable">>)
               /\ UNCHANGED <<d_retry, d_result>>
    /\ UNCHANGED <<d_calls, current_value, expanded, d_ctx, listbox_in_main_frame,
                   render_after, scroll_attempt, d_entry, d_failed>>
    /\ UNCHANGED notDropVars

\* for click_method in ['actionchains', 'javascript', 'direct']
click_methods == 3

\* the clicks on the button up to the one that opened the list (opened_by),
\* or of all the methods when none did (opened_by = 0), after the click that
\* closes a dropdown found expanded
OpenClicks(opened_by) ==
    (IF expanded THEN <<"click_button">> ELSE <<>>)
       \o [k \in 1 .. (IF opened_by = 0 THEN click_methods ELSE opened_by)
              |-> "click_button"]

\* an opening that goes on to the option list whether or not a click method
\* left aria-expanded 'true'
DOpenGoesOn ==
    /\ d_pc = "open"
    /\ \E opened_by \in 0 .. click_methods :
          /\ expanded' = (opened_by > 0)
          /\ d_pc' = "listbox"
          /\ \E k \in RenderAfter : render_after' = k
          /\ DLog(OpenClicks(opened_by))
          /\ UNCHANGED <<d_retry, d_result>>
    /\ UNCHANGED <<d_calls, current_value, d_ctx, listbox_in_main_frame,
                   scroll_attempt, d_entry, d_failed>>
    /\ UNCHANGED notDropVars

\* lines 324-364: an expanded dropdown is closed by a click; then the click
\* methods are tried in turn, each followed by a read of aria-expanded, until
\* one reads 'true' (a method that raises counts as one that did not open);
\* if none opens the list,
\* Exception("Could not open dropdown with any click method")
DOpen ==
    /\ d_pc = "open"
    /\ \E opened_by \in 0 .. click_methods :
          IF opened_by > 0
          THEN /\ expanded' = TRUE
               /\ d_pc' = "listbox"
               /\ \E k \in RenderAfter : render_after' = k
               /\ DLog(OpenClicks(opened_by))
               /\ UNCHANGED <<d_retry, d_result>>
          ELSE /\ expanded' = FALSE
               /\ DRaise
               /\ DLog(OpenClicks(0) \o <<"not_opened", "exc">>)
               /\ UNCHANGED render_after
    /\ UNCHANGED <<d_calls, current_value, d_ctx, listbox_in_main_frame,
                   scroll_attempt, d_entry, d_failed>>
    /\ UNCHANGED notDropVars

\* lines 366-384: the listbox is found in the current frame, or the driver
\* switches to the document root and find_element_safely looks for it there
DListbox ==
    /\ d_pc = "listbox"
    /\ \/ /\ listbox_in_main_frame' = TRUE
          /\ d_pc' = "find"
          /\ UNCHANGED <<d_retry, d_result, d_ctx, d_failed, d_log>>
       \/ /\ listbox_in_main_frame' = FALSE
          /\ d_ctx' = "root"
          /\ \/ /\ d_pc' = "find"
                /\ DLog(<<"default_content">>)
                /\ UNCHANGED <<d_retry, d_result>>
             \/ /\ DRaise
                /\ DLog(<<"default_content", "exc">>)
          /\ UNCHANGED d_failed
       \/ /\ d_failed' = TRUE
          /\ DRaise
          /\ DLog(<<"default_content_failed", "exc">>)
          /\ UNCHANGED <<listbox_in_main_frame, d_ctx>>
    /\ UNCHANGED <<d_calls, current_value, expanded, render_after, scroll_attempt,
                   d_entry>>
    /\ UNCHANGED notDropVars

\* lines 432-454: the option is looked for among the rendered options
DFind ==
    /\ d_pc = "find"
    /\ d_pc' = IF Rendered(0) THEN "click" ELSE "scroll"
    /\ UNCHANGED <<d_calls, d_retry, current_value, expanded, d_ctx,
                   listbox_in_main_frame, render_after, scroll_attempt, d_entry,
                   d_log, d_failed, d_result>>
    /\ UNCHANGED notDropVars

\* lines 510-557, one pass of for scroll_attempt in range(max_scroll_attempts):
\* the option is looked for and, if it is not rendered, a wheel event is
\* sent; a wheel event that fails ends the loop
DScroll ==
    /\ d_pc = "scroll"
    /\ IF Rendered(scroll_attempt)
       THEN d_pc' = "click" /\ UNCHANGED scroll_attempt
       ELSE \/ /\ scroll_attempt' = scroll_attempt + 1
               /\ d_pc' = IF scroll_attempt + 1 < max_scroll_attempts
                          THEN "scroll" ELSE "notfound"
            \/ /\ d_pc' = "notfound"
               /\ UNCHANGED scroll_attempt
    /\ UNCHANGED <<d_calls, d_retry, current_value, expanded, d_ctx,
                   listbox_in_main_frame, render_after, d_entry, d_log,
                   d_failed, d_result>>
    /\ UNCHANGED notDropVars

\* lines 565-576: the option was not found: back to the main frame if the
\* list was found outside it, a click that closes the dropdown (both
\* swallowed when they fail), and Exception("Could not find option ...")
DNotFound ==
    /\ d_pc = "notfound"
    /\ \/ /\ d_ctx' = IF listbox_in_main_frame THEN d_ctx ELSE "main"
          /\ expanded' = FALSE
          /\ DLog(IF listbox_in_main_frame
                  THEN <<"click_button", "exc">>
                  ELSE <<"frame_main", "click_button", "exc">>)
          /\ UNCHANGED d_failed
       \/ /\ ~listbox_in_main_frame
          /\ d_failed' = TRUE
          /\ DLog(<<"frame_main_failed", "exc">>)
          /\ UNCHANGED <<d_ctx, expanded>>
    /\ DRaise
    /\ UNCHANGED <<d_calls, current_value, listbox_in_main_frame, render_after,
                   scroll_attempt, d_entry>>
    /\ UNCHANGED notDropVars

\* lines 578-590: the option is clicked (JavaScript, else ActionChains): the
\* list closes and the dropdown displays option_text, or the selection does
\* not stick; or both clicks raise
DClick ==
    /\ d_pc = "click"
    /\ \/ /\ \E v \in {option_text, current_value} : current_value' = v
          /\ expanded' = FALSE
          /\ d_pc' = "back"
          /\ DLog(<<"click_option">>)
          /\ UNCHANGED <<d_retry, d_result>>
       \/ /\ DRaise
          /\ DLog(<<"exc">>)
          /\ UNCHANGED <<current_value, expanded>>
    /\ UNCHANGED <<d_calls, d_ctx, listbox_in_main_frame, render_after,
                   scroll_attempt, d_entry, d_failed>>
    /\ UNCHANGED notDropVars

\* a return to the verification that leaves the context where the list was
\* found
DBackStaysOut ==
    /\ d_pc = "back"
    /\ d_pc' = "verify"
    /\ UNCHANGED <<d_calls, d_retry, current_value, expanded, d_ctx,
                   listbox_in_main_frame, render_after, scroll_attempt, d_entry,
                   d_log, d_failed, d_result>>
    /\ UNCHANGED notDropVars

\* lines 592-596: if not listbox_in_main_frame: switch_to.frame("main")
DBack ==
    /\ d_pc = "back"
    /\ IF listbox_in_main_frame
       THEN /\ d_pc' = "verify"
            /\ UNCHANGED <<d_retry, d_result, d_ctx, d_log, d_failed>>
       ELSE \/ /\ d_ctx' = "main"
               /\ d_pc' = "verify"
               /\ DLog(<<"frame_main">>)
               /\ UNCHANGED <<d_retry, d_result, d_failed>>
            \/ /\ d_failed' = TRUE
               /\ DRaise
               /\ DLog(<<"frame_main_failed", "exc">>)
               /\ UNCHANGED d_ctx
    /\ UNCHANGED <<d_calls, current_value, expanded, listbox_in_main_frame,
                   render_after, scroll_attempt, d_entry>>
    /\ UNCHANGED notDropVars

\* lines 598-612: the button's text is read again: equal to option_text,
\* return True; different, continue while retry < max_retries - 1; after the
\* try statement, whether the text differed on the last retry or could not be
\* read, return True
DVerify ==
    /\ d_pc = "verify"
    /\ \E readable \in BOOLEAN :
          IF readable /\ current_value # option_text /\ d_retry < max_retries - 1
          THEN DNextAttempt
          ELSE /\ DReturn
               /\ DLog(IF readable THEN <<>> ELSE <<"unreadable">>)
               /\ UNCHANGED <<scroll_attempt, listbox_in_main_frame>>
    /\ UNCHANGED <<d_calls, current_value, expanded, d_ctx, render_after, d_entry,
                   d_failed>>
    /\ UNCHANGED notDropVars

\* a handler that goes to the next attempt in the context the exception
\* left
DExceptNoReset ==
    /\ d_pc = "except"
    /\ d_pc' = "retry"
    /\ UNCHANGED <<d_calls, d_retry, current_value, expanded, d_ctx,
                   listbox_in_main_frame, render_after, scroll_attempt, d_entry,
                   d_log, d_failed, d_result>>
    /\ UNCHANGED notDropVars

\* lines 614-623, except Exception: log, screenshot, and
\* switch_to.default_content(); switch_to.frame("main"), a failure of which
\* is swallowed
DExcept ==
    /\ d_pc = "except"
    /\ \/ /\ d_ctx' = "main"
          /\ DLog(<<"default_content", "frame_main">>)
          /\ UNCHANGED d_failed
       \/ /\ d_ctx' = "root"
          /\ d_failed' = TRUE
          /\ DLog(<<"default_content", "frame_main_failed">>)
       \/ /\ d_failed' = TRUE
          /\ DLog(<<"default_content_failed">>)
          /\ UNCHANGED d_ctx
    /\ d_pc' = "retry"
    /\ UNCHANGED <<d_calls, d_retry, current_value, expanded, listbox_in_main_frame,
                   render_after, scroll_attempt, d_entry, d_result>>
    /\ UNCHANGED notDropVars

\* a handler that does not re-raise after the last attempt: the loop ends
\* and the statement after it returns False
DRetryReturnsFalse ==
    /\ d_pc = "retry"
    /\ IF d_retry < max_retries - 1
       THEN DNextAttempt
       ELSE /\ d_pc' = "returned"
            /\ d_result' = FALSE
            /\ UNCHANGED <<d_retry, d_log, scroll_attempt, listbox_in_main_frame>>
    /\ UNCHANGED <<d_calls, current_value, expanded, d_ctx, render_after, d_entry,
                   d_failed>>
    /\ UNCHANGED notDropVars

\* lines 625-630: sleep and the next attempt, or raise after the last one
DRetry ==
    /\ d_pc = "retry"
    /\ IF d_retry < max_retries - 1
       THEN DNextAttempt
       ELSE /\ d_pc' = "raised"
            /\ UNCHANGED <<d_retry, d_log, scroll_attempt, listbox_in_main_frame,
                           d_result>>
    /\ UNCHANGED <<d_calls, current_value, expanded, d_ctx, render_after, d_entry,
                   d_failed>>
    /\ UNCHANGED notDropVars

\* _select_from_custom_dropdown is not running
DropOff ==
    /\ d_pc = "off"
    /\ d_calls = 0
    /\ d_retry = 0
    /\ current_value = "other"
    /\ expanded = FALSE
    /\ d_ctx = "root"
    /\ listbox_in_main_frame = FALSE
    /\ render_after = 0
    /\ scroll_attempt = 0
    /\ d_entry = [value |-> "other", ctx |-> "root", before |-> "none"]
    /\ d_log = <<>>
    /\ d_failed = FALSE
    /\ d_result = "none"

\* download_dataset is about to select from a dropdown of the query form, in
\* the main frame
InitDrop ==
    /\ dir = (OldName :> File(1, <<0, 0>>))
    /\ d_pc = "idle"
    /\ d_calls = 0
    /\ d_retry = 0
    /\ current_value \in Values
    /\ expanded \in BOOLEAN
    /\ d_ctx = "main"
    /\ listbox_in_main_frame = FALSE
    /\ render_after = 0
    /\ scroll_attempt = 0
    /\ d_entry = [value |-> "other", ctx |-> "root", before |-> "none"]
    /\ d_log = <<>>
    /\ d_failed = FALSE
    /\ d_result = "none"

NextDrop ==
    \/ DCall \/ DButton \/ DCurrent \/ DOpen \/ DListbox \/ DFind \/ DScroll
    \/ DNotFound \/ DClick \/ DBack \/ DVerify \/ DExcept \/ DRetry

(***************************************************************************)
(* download_dataset, steps 2, 4 and 5: the radio groups of the query form  *)
(***************************************************************************)
\* controls on the page
NumControls == 3

\* the radiogroups and the aria-labels of the radio controls of each, as
\* parent.find_elements(".//span[@role='radio']") lists them; "misc" is a
\* group none of the three vocabularies matches
SiblingLabels(group) ==
    CASE group = "region" -> <<"all", "domestic", "overseas">>
      [] group = "pubpriv" -> <<"all", "public", "private">>
      [] group = "period" -> <<"monthly", "yearly">>
      [] group = "misc" -> <<"all", "monthly">>

\* the controls that carry one of the two labels the steps ask for
ControlKinds ==
    {c \in [group : {"region", "pubpriv", "period", "misc"},
            label : {"all", "monthly"},
            visible : BOOLEAN, enabled : BOOLEAN] :
        \E k \in 1 .. Len(SiblingLabels(c.group)) :
            SiblingLabels(c.group)[k] = c.label}

\* region_terms, with region_korean = "all"
region_terms == {"all", "domestic", "overseas", "overseas30", "overseas60"}

\* find_elements("//span[@role='radio' and @aria-label='...']")
Matching(label) == {i \in 1 .. Len(controls) : controls[i].label = label}

\* the first of a set of controls in document order, 0 when there is none
FirstOf(S) == IF S = {} THEN 0 ELSE CHOOSE i \in S : \A j \in S : i <= j

\* len([s for s in sibling_labels if s in region_terms])
RegionTermCount(group) ==
    Cardinality({k \in 1 .. Len(SiblingLabels(group)) :
                    SiblingLabels(group)[k] \in region_terms})

HasSibling(group, labels) ==
    \E k \in 1 .. Len(SiblingLabels(group)) : SiblingLabels(group)[k] \in labels

\* a choice that takes the first displayed match whatever its group
RegionTargetFirstVisible(raised) ==
    FirstOf({i \in Matching("all") : controls[i].visible})

\* lines 1084-1116: the first displayed match whose group has two region
\* terms (a match whose check raises is passed over), else the first
\* displayed match
RegionTarget(raised) ==
    LET found == {i \in Matching("all") \ raised :
                     controls[i].visible /\ RegionTermCount(controls[i].group) >= 2}
        visible_radios == {i \in Matching("all") : controls[i].visible}
    IN  IF found # {} THEN FirstOf(found) ELSE FirstOf(visible_radios)

\* lines 1231-1254: the first match whose group has a public or private
\* sibling and that is displayed and enabled; there is no fallback
PubPrivTarget(raised) ==
    FirstOf({i \in Matching("all") \ raised :
                /\ HasSibling(controls[i].group, {"public", "private"})
                /\ controls[i].visible /\ controls[i].enabled})

\* lines 1330-1350: the first match whose group has a yearly or quarterly
\* sibling, else the first match
PeriodTarget(raised) ==
    LET found == {i \in Matching("monthly") \ raised :
                     HasSibling(controls[i].group, {"yearly", "quarterly"})}
    IN  IF found # {} THEN FirstOf(found) ELSE FirstOf(Matching("monthly"))

\* the checked controls once a click on control i has registered
Checked(i) ==
    {j \in aria_checked : controls[j].group # controls[i].group} \cup {i}

\* the click on the target: the control becomes the checked one of its
\* group, or the click does not register
Click(i) ==
    \/ aria_checked' = Checked(i)
    \/ UNCHANGED aria_checked

\* the click methods each of steps 2 and 4 has
radio_methods == 3

\* the ways a cascade of click methods can go: a method is tried when none
\* before it stopped the cascade
Cascades(outcomes, stops) ==
    {t \in UNION {[1 .. n -> outcomes] : n \in 1 .. radio_methods} :
        /\ \A k \in 1 .. Len(t) - 1 : t[k] # stops
        /\ Len(t) < radio_methods => t[Len(t)] = stops}

\* lines 1121-1164: clicked is set by a method after which aria-checked
\* reads 'true'; a method that raises, or after which it does not read
\* 'true', leaves the next method to be tried
RegionCascades == Cascades({"true", "not_true", "raised"}, "true")

\* lines 1266-1296: clicked is set by a method whose click was executed; only
\* a method that raises leaves the next method to be tried
PubPrivCascades == Cascades({"clicked", "raised"}, "clicked")

\* a target was chosen: the step's cascade is recorded
Targeted(step, target, tries) ==
    /\ q_clicks' = Append(q_clicks, <<step, target>>)
    /\ q_tries' = tries

\* the step raises: except Exception logs the error and re-raises
StepRaises(step) ==
    /\ q_pc' = "raised"
    /\ q_logged' = q_logged \cup {<<step, "error">>}
    /\ UNCHANGED q_unchecked

\* a final check that raises when aria-checked is not 'true'
VerifyHardFails(step, target, next) ==
    IF target \in aria_checked'
    THEN /\ q_pc' = next
         /\ q_logged' = q_logged \cup {<<step, "selected">>}
         /\ UNCHANGED q_unchecked
    ELSE /\ q_pc' = "raised"
         /\ q_logged' = q_logged \cup {<<step, "error">>}
         /\ q_unchecked' = q_unchecked \cup {step}

\* lines 1167-1172 and 1299-1307: aria-checked is read once more: 'true' is
\* logged as the selection, anything else as a warning; the read is not
\* guarded, so when it raises the step raises
Verify(step, target, next) ==
    \/ /\ q_pc' = next
       /\ IF target \in aria_checked'
          THEN /\ q_logged' = q_logged \cup {<<step, "selected">>}
               /\ UNCHANGED q_unchecked
          ELSE /\ q_logged' = q_logged \cup {<<step, "warning">>}
               /\ q_unchecked' = q_unchecked \cup {step}
    \/ StepRaises(step) /\ target \in aria_checked'

\* lines 1360-1362: aria-checked is read for the debug log and the selection
\* is logged whatever was read
VerifyPeriod(step, target, next) ==
    \/ /\ q_pc' = next
       /\ q_logged' = q_logged \cup {<<step, "selected">>}
       /\ q_unchecked' = IF target \in aria_checked'
                         THEN q_unchecked ELSE q_unchecked \cup {step}
    \/ StepRaises(step) /\ target \in aria_checked'

\* a step without a target raises
NoTarget(step) ==
    /\ StepRaises(step)
    /\ UNCHANGED <<aria_checked, q_clicks, q_tries>>

\* what every radio step does
RadioStep(step, raised) ==
    /\ q_pc = step
    /\ q_raised' = IF raised = {} THEN q_raised ELSE q_raised \cup {step}
    /\ UNCHANGED controls
    /\ UNCHANGED notRadioVars

\* lines 1077-1181, step 2
QRegion ==
    \E raised \in SUBSET Matching("all") :
        LET target == RegionTarget(raised)
        IN  /\ RadioStep("region", raised)
            /\ IF target = 0
               THEN NoTarget("region")
               ELSE \E tries \in RegionCascades :
                       /\ Targeted("region", target, tries)
                       /\ IF tries[Len(tries)] = "true"
                          THEN aria_checked' = Checked(target)
                          ELSE Click(target)
                       /\ Verify("region", target, "pubpriv")

\* lines 1228-1316, step 4
QPubPriv ==
    \E raised \in SUBSET Matching("all") :
        LET target == PubPrivTarget(raised)
        IN  /\ RadioStep("pubpriv", raised)
            /\ IF target = 0
               THEN NoTarget("pubpriv")
               ELSE \E tries \in PubPrivCascades :
                       /\ Targeted("pubpriv", target, tries)
                       /\ IF tries[Len(tries)] = "clicked"
                          THEN Click(target)
                          ELSE UNCHANGED aria_checked
                       /\ Verify("pubpriv", target, "period")

\* lines 1322-1369, step 5: one JavaScript click, outside any try
QPeriod ==
    \E raised \in SUBSET Matching("monthly") :
        LET target == PeriodTarget(raised)
        IN  /\ RadioStep("period", raised)
            /\ IF target = 0
               THEN NoTarget("period")
               ELSE \/ /\ Targeted("period", target, <<"clicked">>)
                       /\ Click(target)
                       /\ VerifyPeriod("period", target, "done")
                    \/ /\ Targeted("period", target, <<"raised">>)
                       /\ UNCHANGED aria_checked
                       /\ StepRaises("period")

\* the radio steps are not running
RadioOff ==
    /\ q_pc = "off"
    /\ controls = <<>>
    /\ aria_checked = {}
    /\ q_raised = {}
    /\ q_clicks = <<>>
    /\ q_tries = <<>>
    /\ q_unchecked = {}
    /\ q_logged = {}

\* an attempt of download_dataset has reached step 2 on some page
InitRadio ==
    /\ dir = (OldName :> File(1, <<0, 0>>))
    /\ q_pc = "region"
    /\ controls \in [1 .. NumControls -> ControlKinds]
    /\ aria_checked = {}
    /\ q_raised = {}
    /\ q_clicks = <<>>
    /\ q_tries = <<>>
    /\ q_unchecked = {}
    /\ q_logged = {}

NextRadio == QRegion \/ QPubPriv \/ QPeriod

(***************************************************************************)
(* Sequential mode: __main__ and KOFIAScraper.run                          *)
(***************************************************************************)
\* scraper = KOFIAScraper(...): the driver starts, or the constructor raises
\* and the program ends with no session
RInit ==
    /\ r_pc = "init"
    /\ \/ r_driver' = "open" /\ r_pc' = "navigate"
       \/ r_pc' = "crashed" /\ UNCHANGED r_driver
    /\ UNCHANGED <<r_navs, r_results, run_success_count, run_failure_count, r_logged>>
    /\ UNCHANGED <<navVars, findVars, notRunVars>>

\* self.navigate_to_fund_composition_query() is called
RNavigate ==
    /\ r_pc = "navigate"
    /\ n_pc = "off"
    /\ r_navs' = r_navs + 1
    /\ r_pc' = "navigating"
    /\ n_pc' = "get"
    /\ UNCHANGED <<n_step, n_ctx, n_resolved, n_clicks, expand_attempt,
                   submenu_expanded, n_exc>>
    /\ UNCHANGED <<r_driver, r_results, run_success_count, run_failure_count, r_logged>>
    /\ UNCHANGED <<findVars, notRunVars>>

\* the navigation ended and the loop is entered whether it raised or not
RNavigatedGoesOn ==
    /\ r_pc = "navigating"
    /\ n_pc \in {"ready", "raised"}
    /\ r_pc' = "loop"
    /\ UNCHANGED <<r_driver, r_navs, r_results, run_success_count, run_failure_count, r_logged>>
    /\ UNCHANGED <<navVars, findVars, notRunVars>>

\* the navigation returned (on to the loop) or raised (to except Exception)
RNavigated ==
    /\ r_pc = "navigating"
    /\ n_pc \in {"ready", "raised"}
    /\ r_pc' = IF n_pc = "ready" THEN "loop" ELSE "except"
    /\ UNCHANGED <<r_driver, r_navs, r_results, run_success_count, run_failure_count, r_logged>>
    /\ UNCHANGED <<navVars, findVars, notRunVars>>

\* one iteration of the loop, leaving the loop at the first failure
RDownloadStopsAtFailure ==
    /\ r_pc = "loop"
    /\ Len(r_results) < Len(DATASET_CONFIGS)
    /\ LET config == DATASET_CONFIGS[Len(r_results) + 1]
       IN  \E ok \in BOOLEAN :
               /\ r_results' = Append(r_results, <<ok, config.name>>)
               /\ run_success_count' = IF ok THEN run_success_count + 1 ELSE run_success_count
               /\ run_failure_count' = IF ok THEN run_failure_count ELSE run_failure_count + 1
               /\ r_pc' = IF ok THEN r_pc ELSE "summary"
    /\ UNCHANGED <<r_driver, r_navs, r_logged>>
    /\ UNCHANGED <<navVars, findVars, notRunVars>>

\* one iteration of the loop over DATASET_CONFIGS:
\* if self.download_dataset(config): success_count += 1 else: failure_count += 1
RDownload ==
    /\ r_pc = "loop"
    /\ Len(r_results) < Len(DATASET_CONFIGS)
    /\ LET config == DATASET_CONFIGS[Len(r_results) + 1]
       IN  \E ok \in BOOLEAN :
               /\ r_results' = Append(r_results, <<ok, config.name>>)
               /\ run_success_count' = IF ok THEN run_success_count + 1 ELSE run_success_count
               /\ run_failure_count' = IF ok THEN run_failure_count ELSE run_failure_count + 1
    /\ UNCHANGED <<r_pc, r_driver, r_navs, r_logged>>
    /\ UNCHANGED <<navVars, findVars, notRunVars>>

\* the loop is over: the download summary is logged
RLoopEnd ==
    /\ r_pc = "loop"
    /\ Len(r_results) = Len(DATASET_CONFIGS)
    /\ r_pc' = "summary"
    /\ UNCHANGED <<r_driver, r_navs, r_results, run_success_count, run_failure_count, r_logged>>
    /\ UNCHANGED <<navVars, findVars, notRunVars>>

\* the execution summary: the line that logs process_duration reads a name
\* that is never assigned (its assignment is commented out), so NameError is
\* raised before "completed successfully" is logged
RSummary ==
    /\ r_pc = "summary"
    /\ r_pc' = "except"
    /\ UNCHANGED <<r_driver, r_navs, r_results, run_success_count, run_failure_count, r_logged>>
    /\ UNCHANGED <<navVars, findVars, notRunVars>>

\* except Exception: "EXECUTION FAILED" is logged; reading
\* self.driver.current_url may itself raise, which leaves run() after the
\* finally clause
RExcept ==
    /\ r_pc = "except"
    /\ \E raised \in BOOLEAN :
           r_logged' = r_logged \cup {"EXECUTION FAILED"}
                                \cup (IF raised THEN {"WebDriverException"} ELSE {})
    /\ r_pc' = "finally"
    /\ UNCHANGED <<r_driver, r_navs, r_results, run_success_count, run_failure_count>>
    /\ UNCHANGED <<navVars, findVars, notRunVars>>

\* a finally clause that leaves the driver as it is
RFinallyNoQuit ==
    /\ r_pc = "finally"
    /\ r_pc' = "end"
    /\ UNCHANGED <<r_driver, r_navs, r_results, run_success_count, run_failure_count, r_logged>>
    /\ UNCHANGED <<navVars, findVars, notRunVars>>

\* finally: if self.driver: self.driver.quit()
RFinally ==
    /\ r_pc = "finally"
    /\ r_driver' = IF r_driver = "open" THEN "quit" ELSE r_driver
    /\ r_pc' = "end"
    /\ UNCHANGED <<r_navs, r_results, run_success_count, run_failure_count, r_logged>>
    /\ UNCHANGED <<navVars, findVars, notRunVars>>

\* sequential mode is not running
RunOff ==
    /\ r_pc = "off"
    /\ r_driver = "none"
    /\ r_navs = 0
    /\ r_results = <<>>
    /\ run_success_count = 0
    /\ run_failure_count = 0
    /\ r_logged = {}

\* __main__ with NUM_PARALLEL_TABS = 1; success_count = 0, failure_count = 0
InitRun ==
    /\ dir = (OldName :> File(1, <<0, 0>>))
    /\ r_pc = "init"
    /\ r_driver = "none"
    /\ r_navs = 0
    /\ r_results = <<>>
    /\ run_success_count = 0
    /\ run_failure_count = 0
    /\ r_logged = {}

NextRun ==
    \/ RInit \/ RNavigate \/ RNavigated
    \/ NGet \/ NFrame \/ NResolve \/ NResolved \/ NClick \/ NCheck
    \/ FTry \/ FPassEnd
    \/ RDownload \/ RLoopEnd \/ RSummary \/ RExcept \/ RFinally

\* ---- main.py: KOFIAScraper.run ----

\* the file download_dataset leaves for a config: output_name with ".xls"
RenamedFile(config) == config.output_name

\* zip(a, b): the pairs by position, as many as the shorter has
Zip(a, b) ==
    [i \in 1 .. (IF Len(a) < Len(b) THEN Len(a) ELSE Len(b)) |-> <<a[i], b[i]>>]

\* download_dataset returned: run counts it and moves to the next config
KReturned(ok) ==
    /\ k_success_count' = IF ok THEN k_success_count + 1 ELSE k_success_count
    /\ k_failure_count' = IF ok THEN k_failure_count ELSE k_failure_count + 1
    /\ k_i' = k_i + 1
    /\ k_attempt' = 0

\* navigate_to_fund_composition_query returns or raises
KNavigate ==
    /\ k_pc = "navigate"
    /\ \E ok \in BOOLEAN : k_pc' = IF ok THEN "download" ELSE "except"
    /\ UNCHANGED <<k_i, k_attempt, k_downloaded, k_success_count, k_failure_count, k_j,
                   k_processed, all_processed_data, k_driver>>
    /\ UNCHANGED notKofiaVars

\* one attempt of download_dataset(DATASET_CONFIGS[k_i]): the file arrives and
\* is renamed and recorded; or a Selenium error is retried while attempts are
\* left; or any other error ends the call at once
KAttempt ==
    /\ k_pc = "download"
    /\ k_i <= Len(DATASET_CONFIGS)
    /\ \E outcome \in {"downloaded", "selenium_error", "unexpected_error"} :
          \/ /\ outcome = "downloaded"
             /\ k_downloaded' = Append(k_downloaded, RenamedFile(DATASET_CONFIGS[k_i]))
             /\ KReturned(TRUE)
          \/ /\ outcome = "selenium_error"
             /\ k_attempt < MAX_RETRIES - 1
             /\ k_attempt' = k_attempt + 1
             /\ UNCHANGED <<k_i, k_downloaded, k_success_count, k_failure_count>>
          \/ /\ outcome = "selenium_error"
             /\ k_attempt >= MAX_RETRIES - 1
             /\ KReturned(FALSE)
             /\ UNCHANGED k_downloaded
          \/ /\ outcome = "unexpected_error"
             /\ KReturned(FALSE)
             /\ UNCHANGED k_downloaded
    /\ UNCHANGED <<k_pc, k_j, k_processed, all_processed_data, k_driver>>
    /\ UNCHANGED notKofiaVars

\* the loop over DATASET_CONFIGS is over: the download summary is logged
KLoopEnd ==
    /\ k_pc = "download"
    /\ k_i > Len(DATASET_CONFIGS)
    /\ k_pc' = "process"
    /\ k_j' = 1
    /\ UNCHANGED <<k_i, k_attempt, k_downloaded, k_success_count, k_failure_count,
                   k_processed, all_processed_data, k_driver>>
    /\ UNCHANGED notKofiaVars

\* process_excel_file(file_path, config) for the next pair of
\* zip(self.downloaded_files, DATASET_CONFIGS): the columns of the file get the
\* prefix config['output_name']; an error inside is logged and None returned
KProcess ==
    /\ k_pc = "process"
    /\ k_j <= Len(Zip(k_downloaded, DATASET_CONFIGS))
    /\ LET file_path == Zip(k_downloaded, DATASET_CONFIGS)[k_j][1]
           dataset_config == Zip(k_downloaded, DATASET_CONFIGS)[k_j][2]
       IN  /\ k_processed' = Append(k_processed, <<file_path, dataset_config>>)
           /\ \E read \in BOOLEAN :
                 all_processed_data' =
                     IF read
                     THEN Append(all_processed_data,
                                 <<file_path, dataset_config.output_name>>)
                     ELSE all_processed_data
    /\ k_j' = k_j + 1
    /\ UNCHANGED <<k_pc, k_i, k_attempt, k_downloaded, k_success_count, k_failure_count,
                   k_driver>>
    /\ UNCHANGED notKofiaVars

\* the pairs are used up: generate_output_files (which catches its own
\* errors) and the completion lines
KGenerate ==
    /\ k_pc = "process"
    /\ k_j > Len(Zip(k_downloaded, DATASET_CONFIGS))
    /\ k_pc' = "finally"
    /\ UNCHANGED <<k_i, k_attempt, k_downloaded, k_success_count, k_failure_count, k_j,
                   k_processed, all_processed_data, k_driver>>
    /\ UNCHANGED notKofiaVars

\* except Exception: the fatal error is logged, a screenshot taken
KExcept ==
    /\ k_pc = "except"
    /\ k_pc' = "finally"
    /\ UNCHANGED <<k_i, k_attempt, k_downloaded, k_success_count, k_failure_count, k_j,
                   k_processed, all_processed_data, k_driver>>
    /\ UNCHANGED notKofiaVars

\* finally: self.driver.quit()
KFinally ==
    /\ k_pc = "finally"
    /\ k_pc' = "end"
    /\ k_driver' = "quit"
    /\ UNCHANGED <<k_i, k_attempt, k_downloaded, k_success_count, k_failure_count, k_j,
                   k_processed, all_processed_data>>
    /\ UNCHANGED notKofiaVars

KofiaOff ==
    /\ k_pc = "off"
    /\ k_i = 1
    /\ k_attempt = 0
    /\ k_downloaded = <<>>
    /\ k_success_count = 0
    /\ k_failure_count = 0
    /\ k_j = 1
    /\ k_processed = <<>>
    /\ all_processed_data = <<>>
    /\ k_driver = "open"

\* KOFIAScraper() constructed, run() entered
InitKofia ==
    /\ dir = (OldName :> File(1, <<0, 0>>))
    /\ k_pc = "navigate"
    /\ k_i = 1
    /\ k_attempt = 0
    /\ k_downloaded = <<>>
    /\ k_success_count = 0
    /\ k_failure_count = 0
    /\ k_j = 1
    /\ k_processed = <<>>
    /\ all_processed_data = <<>>
    /\ k_driver = "open"

NextKofia ==
    KNavigate \/ KAttempt \/ KLoopEnd \/ KProcess \/ KGenerate \/ KExcept \/ KFinally

InitSpecKofia == InitKofia /\ WaitOff /\ DsOff /\ ParOff /\ RunOff /\ NavOff /\ FindOff /\ FrameOff /\ DropOff /\ RadioOff
SpecKofia == InitSpecKofia /\ [][NextKofia]_vars

InitSpecPar == InitPar /\ WaitOff /\ DsOff /\ RunOff /\ NavOff /\ FindOff /\ FrameOff /\ DropOff /\ RadioOff /\ KofiaOff
SpecPar == InitSpecPar /\ [][NextPar]_vars

\* __main__: parallel mode when NUM_PARALLEL_TABS > 1, else sequential mode
InitMain ==
    \/ InitRun /\ NavOff /\ FindOff /\ WaitOff /\ DsOff /\ ParOff /\ FrameOff /\ DropOff /\ RadioOff /\ KofiaOff
    \/ InitPar /\ WaitOff /\ DsOff /\ RunOff /\ NavOff /\ FindOff /\ FrameOff /\ DropOff /\ RadioOff /\ KofiaOff
NextMain == NextRun \/ NextPar
SpecMain == InitMain /\ [][NextMain]_vars

InitSpecFrame == InitFrame /\ WaitOff /\ DsOff /\ ParOff /\ RunOff /\ NavOff /\ FindOff /\ DropOff /\ RadioOff /\ KofiaOff
SpecFrame == InitSpecFrame /\ [][NextFrame]_vars

InitSpecDrop == InitDrop /\ WaitOff /\ DsOff /\ ParOff /\ RunOff /\ NavOff /\ FindOff /\ FrameOff /\ RadioOff /\ KofiaOff
SpecDrop == InitSpecDrop /\ [][NextDrop]_vars

InitSpecRadio == InitRadio /\ WaitOff /\ DsOff /\ ParOff /\ RunOff /\ NavOff /\ FindOff /\ FrameOff /\ DropOff /\ KofiaOff
SpecRadio == InitSpecRadio /\ [][NextRadio]_vars

InitSpecRun == InitRun /\ NavOff /\ FindOff /\ WaitOff /\ DsOff /\ ParOff /\ FrameOff /\ DropOff /\ RadioOff /\ KofiaOff
SpecRun == InitSpecRun /\ [][NextRun]_vars

NextDs == \E s \in Sessions : DsStep(s)

InitSpecSeq == InitDs(SeqBatches) /\ WaitOff /\ ParOff /\ RunOff /\ NavOff /\ FindOff /\ FrameOff /\ DropOff /\ RadioOff /\ KofiaOff
SpecSeq == InitSpecSeq /\ [][NextDs]_vars
InitSpecRace == InitDs(RaceBatches) /\ WaitOff /\ ParOff /\ RunOff /\ NavOff /\ FindOff /\ FrameOff /\ DropOff /\ RadioOff /\ KofiaOff
SpecRace == InitSpecRace /\ [][NextDs]_vars

NextWait == WaitStep \/ WaitEnv

InitSpecWait == InitWait /\ DsOff /\ ParOff /\ RunOff /\ NavOff /\ FindOff /\ FrameOff /\ DropOff /\ RadioOff /\ KofiaOff
SpecWait == InitSpecWait /\ [][NextWait]_vars

\* the detector's thread keeps running: its sleeps end
SpecWaitFair == SpecWait /\ WF_vars(WaitStep)

(***************************************************************************)
(* Claims                                                                  *)
(***************************************************************************)
Range(q) == {q[i] : i \in 1 .. Len(q)}
Last(q) == q[Len(q)]

\* C1: download_dataset never lets an exception escape to its caller:
\* whatever is raised inside an attempt, the call ends by returning a
\* boolean, which the caller records before going on.
C1_NoExceptionEscapes ==
    \A s \in Sessions :
        /\ s_pc[s] # "escaped"
        /\ s_pc[s] = "return" => success[s] \in BOOLEAN
        /\ \A i \in 1 .. Len(results[s]) : results[s][i][1] \in BOOLEAN

\* C1 witness: a call is returning False after a plain Exception was raised
\* inside an attempt
C1_Witness ==
    \E s \in Sessions :
        /\ s_pc[s] = "return"
        /\ ~success[s]
        /\ Other \in Range(att_log[s])

\* C2 (as claimed): a failure of any kind in an attempt leads to another
\* attempt while fewer than MAX_RETRIES were made, so a call that returns
\* False has made MAX_RETRIES attempts.
C2_AnyFailureRetried ==
    \A s \in Sessions :
        (s_pc[s] = "return" /\ ~success[s]) => Len(att_log[s]) = MAX_RETRIES

\* C3: download_dataset makes at most MAX_RETRIES attempts and stops at the
\* first successful one: no attempt follows a success, the call returns True
\* exactly when its last attempt succeeded, and three failed attempts end it
\* with False.
C3_BoundedAttempts ==
    \A s \in Sessions :
        /\ Len(att_log[s]) <= MAX_RETRIES
        /\ attempt[s] < MAX_RETRIES
        /\ \A i \in 1 .. Len(att_log[s]) :
              att_log[s][i] = "ok" => (i = Len(att_log[s]) /\ s_pc[s] \in {"return", "done"})
        /\ s_pc[s] = "return" =>
              /\ att_log[s] # <<>>
              /\ success[s] <=> Last(att_log[s]) = "ok"
              /\ Len(att_log[s]) = attempt[s] + 1
        /\ (Len(att_log[s]) = MAX_RETRIES /\ "ok" \notin Range(att_log[s])) =>
              (s_pc[s] \in {"return", "done"} /\ ~success[s])

\* C3 witness: failures on attempts 1 and 2, success on attempt 3, True
\* returned
C3_Witness ==
    \E s \in Sessions :
        /\ s_pc[s] = "return"
        /\ success[s]
        /\ att_log[s] = <<Selenium, Selenium, "ok">>

\* C4 (as claimed): wait_for_download_completion returns a path only after
\* two consecutive size samples of that file were equal and nonzero.
C4_ReturnedAfterStableSamples ==
    w_pc = "returned" =>
        /\ Len(w_samples) >= 2
        /\ w_samples[Len(w_samples)] = w_samples[Len(w_samples) - 1]
        /\ w_samples[Len(w_samples)] > 0

\* C5: the returned path is never a name of the baseline listing and never
\* ends in an in-progress suffix.
C5_ReturnedIsNewAndFinal ==
    w_pc = "returned" =>
        /\ w_result # NoPath
        /\ w_result \notin initial_files
        /\ ~EndsWith(w_result, InProgressSuffixes)

\* C5 witness: the download appeared as download.xls.part, was renamed, and
\* download.xls was returned
C5_Witness ==
    /\ w_pc = "returned"
    /\ w_result = DlName
    /\ DlName \in Listing(dir)
    /\ dir[DlName].src = DlName \o <<".part">>

\* C6: when no qualifying file shows in any poll, the detector ends by
\* raising TimeoutException; a return always carries a path; and the detector
\* always ends.
C6_TimeoutRaised ==
    /\ [](w_pc = "returned" => w_result # NoPath)
    /\ []((~WaitRunning /\ w_polls = {}) => w_pc = "TimeoutException")
    /\ [](w_pc = "TimeoutException" => w_clock >= WaitTimeout)
    /\ <>(~WaitRunning)

\* C6 witness: the timeout was raised with only an in-progress file in the
\* directory
C6_Witness ==
    /\ w_pc = "TimeoutException"
    /\ w_polls = {}
    /\ \E n \in TempNames : n \in Listing(dir)

\* C7: nothing separates the sessions in the shared directory: whenever a
\* session waits for its download, every file that is new against its
\* baseline, whichever session's export wrote it, is a path its detector can
\* return.
C7_ForeignFileIsCandidate ==
    \A s \in Sessions :
        s_pc[s] = "wait" =>
            \A f \in Listing(dir) \ ds_initial_files[s] :
                ~EndsWith(f, InProgressSuffixes) => ENABLED DsWaitPick(s, f)

\* C7 witness: session a returned True and its {output_name}.xls holds the
\* file that the export of another session b wrote
C7_Witness ==
    \E a \in Sessions :
        /\ s_pc[a] = "done"
        /\ results[a] = << <<TRUE, s_batch[a][1]>> >>
        /\ OutputName(s_batch[a][1]) \in Listing(dir)
        /\ dir[OutputName(s_batch[a][1])].src[1] \in Sessions \ {a}

\* C8: within a session, whenever the steps from the search to the rename of
\* a dataset run, every earlier dataset of the batch has its outcome
\* recorded, in order, and each one recorded as success has its file under
\* {output_name}.xls and in downloaded_files.
C8_PriorDatasetFinished ==
    \A s \in Sessions :
        s_pc[s] \in {"search", "verify", "snapshot", "export", "wait", "sample", "rename"} =>
            /\ Len(results[s]) = s_idx[s] - 1
            /\ \A i \in 1 .. Len(results[s]) :
                  /\ results[s][i][2] = s_batch[s][i]
                  /\ results[s][i][1] =>
                        /\ OutputName(s_batch[s][i]) \in Listing(dir)
                        /\ OutputName(s_batch[s][i]) \in Range(downloaded_files[s])

\* C8 witness: the second dataset's download is awaited after the first one
\* was renamed
C8_Witness ==
    \E s \in Sessions :
        /\ s_idx[s] = 2
        /\ s_pc[s] = "wait"
        /\ results[s] = << <<TRUE, s_batch[s][1]>> >>

\* the names recorded in a list of (success, name) results, in order
Names(res) == [k \in 1 .. Len(res) |-> res[k][2]]
\* the names of a list of configs, in order
ConfigNames(cfgs) == [k \in 1 .. Len(cfgs) |-> cfgs[k].name]
\* how many entries of a sequence equal x
Count(q, x) == Cardinality({k \in 1 .. Len(q) : q[k] = x})
AllNames == {DATASET_CONFIGS[i].name : i \in 1 .. NumConfigs}
FirstPassFailed(name) == <<FALSE, name>> \in Range(all_results)

\* C9: in the first pass of run_parallel every config of every batch is
\* recorded exactly once: a worker that returned, normally or through its
\* except branch, returns one result per config of its batch, and once the
\* three futures are collected all_results holds every config name exactly
\* once.
C9_EachConfigRecordedOnce ==
    /\ \A t \in Tabs :
          t_pc[t] = "returned" => Names(t_results[t]) = ConfigNames(Batch(t))
    /\ collected = Tabs =>
          /\ Len(all_results) = NumConfigs
          /\ \A n \in AllNames : Count(Names(all_results), n) = 1

\* C9 witness: all futures are collected; one session died in its
\* constructor, one in its navigation, and one in its loop after a dataset
\* had succeeded
C9_Witness ==
    /\ collected = Tabs
    /\ \E a, b, c \in Tabs :
          /\ t_pc[a] = "returned" /\ browser[a] = "none"
          /\ t_pc[b] = "returned" /\ browser[b] = "quit" /\ navs[b] = 1
             /\ calls[Batch(b)[1].name] = 0
          /\ t_pc[c] = "returned" /\ ~t_scraper[c]
             /\ t_results[c][1][1] /\ ~t_results[c][Len(t_results[c])][1]

\* C10: the retry pass runs only after every worker has returned; each of
\* its download_dataset calls is on one and the same session, which returned
\* its scraper, has its browser open and was navigated once; and by the
\* cleanup every config that failed in the first pass has exactly one retry
\* call when a scraper was stored and none otherwise, and no other config
\* has any.
C10_FailedRetriedOnceOnSurvivor ==
    /\ \A t \in Tabs : navs[t] <= 1
    /\ (p_pc = "retry" \/ retry_log # <<>>) =>
          /\ \A t \in Tabs : t_pc[t] = "returned"
          /\ active_scrapers # <<>>
    /\ \A k \in 1 .. Len(retry_log) :
          /\ retry_log[k][2] = RetryTab
          /\ t_scraper[retry_log[k][2]]
          /\ retry_log[k][3] = "open"
          /\ navs[retry_log[k][2]] = 1
          /\ FirstPassFailed(retry_log[k][1])
    /\ \A n \in AllNames : Count(Names(retry_results), n) <= 1
    /\ p_pc \in {"cleanup", "end"} =>
          \A n \in AllNames :
              Count([k \in 1 .. Len(retry_log) |-> retry_log[k][1]], n)
                  = IF FirstPassFailed(n) /\ active_scrapers # <<>> THEN 1 ELSE 0

\* C10 witness: run_parallel has ended after retrying two failed datasets,
\* one of a session that died and one of a session that survived, on a
\* surviving session
C10_Witness ==
    /\ p_pc = "end"
    /\ Len(retry_log) = 2
    /\ \E t \in Tabs : ~t_scraper[t] /\ Len(t_results[t]) > 0
    /\ \E k \in 1 .. Len(retry_results) : retry_results[k][1]

SucceededIn(res, name) == <<TRUE, name>> \in Range(res)
FailedIn(res, name) == <<FALSE, name>> \in Range(res)

\* C11: when run_parallel logs its final results, final_failure is the
\* number of configs that failed in the first pass and in the retry pass,
\* final_success is the number that succeeded in one of them, the two add up
\* to the number of configs, and no name listed as still failed succeeded in
\* either pass.
C11_FinallyFailedInBothPasses ==
    final_tally # <<>> =>
        /\ final_tally[2] = Cardinality({n \in AllNames :
                                FailedIn(all_results, n) /\ FailedIn(retry_results, n)})
        /\ final_tally[1] = Cardinality({n \in AllNames :
                                SucceededIn(all_results, n) \/ SucceededIn(retry_results, n)})
        /\ final_tally[1] + final_tally[2] = NumConfigs
        /\ \A n \in Range(final_tally[3]) :
              ~SucceededIn(all_results, n) /\ ~SucceededIn(retry_results, n)
        /\ final_tally[2] > 0 =>
              Range(final_tally[3]) = {n \in AllNames : FailedIn(retry_results, n)}

\* C11 witness: of the datasets that failed in the first pass one succeeded
\* in the retry pass and one failed again; the final tally counts one
\* failure
C11_Witness ==
    /\ final_tally # <<>>
    /\ final_tally[2] = 1
    /\ Len(final_tally[3]) = 1
    /\ \E k \in 1 .. Len(retry_results) : retry_results[k][1]

\* the worker of tab t holds the session it created
WorkerOperates(t) == t_pc[t] \in {"init", "navigate", "loop", "except"}
\* run_parallel's own thread uses the session of tab t
MainOperates(t) ==
    \/ p_pc = "retry" /\ t = RetryTab
    \/ p_pc = "cleanup" /\ t \in Range(active_scrapers)

\* C12: no session is operated by its worker and by run_parallel's thread at
\* once; run_parallel's thread uses a session only when every worker has
\* returned; and every step that starts, navigates or quits the browser of a
\* tab, or records a result of its batch, is taken by the thread that holds the
\* session.
C12_OneThreadPerSession ==
    /\ [](\A t \in Tabs : ~(WorkerOperates(t) /\ MainOperates(t)))
    /\ []((p_pc = "retry" \/ retry_log # <<>> \/ \E t \in Tabs : MainOperates(t)) =>
              \A u \in Tabs : t_pc[u] = "returned")
    /\ [][\A t \in Tabs :
            /\ (browser'[t] # browser[t]) => (WorkerOperates(t) \/ MainOperates(t))
            /\ (navs'[t] # navs[t] \/ t_results'[t] # t_results[t]) => WorkerOperates(t)
            /\ (Len(retry_log') > Len(retry_log)) => MainOperates(RetryTab)]_vars

\* C12 witness: the retry coordinator has made a call on the session of a
\* tab whose worker returned it, and another tab's worker ended on a fatal
\* error
C12_Witness ==
    /\ p_pc = "retry"
    /\ Len(retry_log) = 1
    /\ retry_log[1][2] = RetryTab
    /\ t_pc[RetryTab] = "returned"
    /\ \E t \in Tabs : t_pc[t] = "returned" /\ ~t_scraper[t]

IsPrefix(p, q) == Len(p) <= Len(q) /\ \A k \in 1 .. Len(p) : p[k] = q[k]

\* C13: the three batches are contiguous slices of DATASET_CONFIGS that
\* follow one another from its first to its last config (indexes 0-3, 4-7,
\* 8-10), so they are pairwise disjoint and cover it in order; each worker
\* records, in its own session, only configs of its own batch, in the batch's
\* order, and no config is acquired twice in the first pass.
C13_BatchesPartitionConfigs ==
    /\ Batch(1) \o Batch(2) \o Batch(3) = DATASET_CONFIGS
    /\ <<Len(Batch(1)), Len(Batch(2)), Len(Batch(3))>> = <<4, 4, 3>>
    /\ \A t, u \in Tabs : t # u => Range(Batch(t)) \cap Range(Batch(u)) = {}
    /\ \A t \in Tabs : IsPrefix(Names(t_results[t]), ConfigNames(Batch(t)))
    /\ \A n \in AllNames : calls[n] <= 1

\* C13 witness: the three sessions are open at once and each has acquired
\* the first config of its own batch
C13_Witness ==
    \A t \in Tabs :
        /\ t_pc[t] = "loop"
        /\ browser[t] = "open"
        /\ t_results[t] = << <<TRUE, Batch(t)[1].name>> >>
        /\ calls[Batch(t)[1].name] = 1

\* C14: run() navigates once and then calls download_dataset once per
\* config, in the order of DATASET_CONFIGS; after a failed dataset the next
\* one is still acquired; the counters count the calls made, and when the
\* loop is over success_count + failure_count is the number of configs.
C14_RunAcquiresEveryConfigInOrder ==
    /\ r_navs <= 1
    /\ r_results # <<>> => r_navs = 1
    /\ IsPrefix(Names(r_results), ConfigNames(DATASET_CONFIGS))
    /\ run_success_count = SuccessCount(r_results)
    /\ run_success_count + run_failure_count = Len(r_results)
    /\ (r_pc = "loop" /\ Len(r_results) < NumConfigs) => ENABLED RDownload
    /\ r_pc = "summary" => run_success_count + run_failure_count = NumConfigs

\* C14 witness: the loop is over, the first dataset failed and the last one
\* succeeded
C14_Witness ==
    /\ r_pc = "summary"
    /\ Len(r_results) = NumConfigs
    /\ ~r_results[1][1]
    /\ r_results[NumConfigs][1]

\* C15: every driver that was started is quit when the run has ended: run()
\* ends with its driver quit whether it got to the end of the loop or not; a
\* worker that returns None has quit its browser; and when run_parallel has
\* ended no browser is open.
C15_EverySessionQuit ==
    /\ r_pc = "end" => r_driver = "quit"
    /\ r_pc = "crashed" => r_driver = "none"
    /\ \A t \in Tabs : (t_pc[t] = "returned" /\ ~t_scraper[t]) => browser[t] # "open"
    /\ p_pc = "end" => \A t \in Tabs : browser[t] # "open"

\* C15 witness: run_parallel has ended; one browser was quit by its worker
\* after a fatal error and one by the final cleanup
C15_Witness ==
    /\ p_pc = "end"
    /\ \E t, u \in Tabs :
          /\ ~t_scraper[t] /\ browser[t] = "quit"
          /\ t_scraper[u] /\ browser[u] = "quit"

\* C16: a navigation that could not enter the main frame or resolve one of
\* its targets raises, and the session acquires nothing: the navigation is
\* ready only with the main frame entered and every target resolved; run()
\* enters its loop only after a navigation that did not raise and records no
\* dataset otherwise; a worker has called download_dataset for no config
\* while it navigates, and when it ends with nothing recorded it records
\* every config of its batch as failed without a call.
C16_NavigationFailureAcquiresNothing ==
    /\ [](n_pc = "ready" => (n_ctx = "main" /\ n_resolved = NavTargets))
    /\ [](n_pc = "raised" => (r_results = <<>> /\ r_pc \notin {"loop", "summary"}))
    /\ [][(n_pc = "resolving" /\ f_pc \notin {"off", "for", "returned"}
           /\ n_pc' # n_pc) => n_pc' = "raised"]_vars
    /\ [](\A t \in Tabs : t_pc[t] \in {"init", "navigate"} =>
             (t_results[t] = <<>> /\ \A n \in Range(ConfigNames(Batch(t))) : calls[n] = 0))
    /\ [][\A t \in Tabs :
            (t_pc[t] = "except" /\ t_results[t] = <<>> /\ t_pc'[t] = "returned") =>
                /\ t_results'[t] = [k \in 1 .. Len(Batch(t)) |-> <<FALSE, Batch(t)[k].name>>]
                /\ calls' = calls]_vars

\* C16 witness: run() has ended after a navigation in which a target of the
\* sidebar could not be resolved; no dataset was attempted
C16_Witness ==
    /\ r_pc = "end"
    /\ n_pc = "raised"
    /\ n_exc = "NoSuchElementException"
    /\ n_resolved = <<"fund_tab", "fund_industry", "mgmt_stats">>
    /\ r_results = <<>>

\* q without the repetitions of an element next to itself
RECURSIVE Squeeze(_)
Squeeze(q) ==
    IF Len(q) <= 1 THEN q
    ELSE IF q[1] = q[2] THEN Squeeze(Tail(q))
         ELSE <<q[1]>> \o Squeeze(Tail(q))
ClickedTargets == SelectSeq(NavTargets, IsClicked)

\* C17: the navigation loads the entry page, enters the main frame and then
\* handles its targets in the order of the code: the targets resolved are an
\* initial part of the list, every click is on a resolved target, the clicks
\* follow the order fund tab, industry menu, expand icon (1 to 3 times),
\* asset weight, trend tab with none left out, and the navigation is ready
\* only after the click on the trend tab.
C17_NavigationStepsInOrder ==
    /\ IsPrefix(n_resolved, NavTargets)
    /\ Range(n_clicks) \subseteq Range(n_resolved)
    /\ IsPrefix(Squeeze(n_clicks), ClickedTargets)
    /\ Count(n_clicks, "expand_icon") <= max_expand_attempts
    /\ \A k \in 1 .. Len(n_clicks) : n_clicks[k] # "expand_icon" => Count(n_clicks, n_clicks[k]) = 1
    /\ n_resolved # <<>> => n_ctx = "main"
    /\ n_pc \in {"off", "get", "frame"} => (n_resolved = <<>> /\ n_clicks = <<>>)
    /\ n_pc = "ready" =>
          /\ Squeeze(n_clicks) = ClickedTargets
          /\ Last(n_clicks) = "trend_tab"
          /\ n_resolved = NavTargets

\* C17 witness: the navigation is ready after two clicks on the expand icon
C17_Witness ==
    /\ n_pc = "ready"
    /\ n_clicks = <<"fund_tab", "fund_industry", "expand_icon", "expand_icon",
                    "asset_weight", "trend_tab">>

\* the waits of a call that is in pass a (counted from 0) at locator n, with
\* len locators: every locator in every earlier pass, then 1..n
Tries(a, n, len) ==
    [k \in 1 .. (a * len + n) |-> <<(k - 1) \div len, ((k - 1) % len) + 1>>]

\* the <<attempt, locator>> of the waits of the call
TriedLocators == [k \in 1 .. Len(f_tried) |-> <<f_tried[k][1], f_tried[k][2]>>]

\* C18: find_element_safely waits for the locators of a pass in list order
\* and returns the element of the first one that yields an element: when it
\* returns the element of locator N in a pass, its waits were every locator
\* in each earlier pass and then locators 1..N of this pass, and locator N
\* matched while none of the waits before it yielded an element.
C18_FirstMatchingLocatorInOrder ==
    /\ f_pc = "for" =>
          /\ TriedLocators = Tries(f_attempt, f_i - 1, f_locators)
          /\ \A k \in 1 .. Len(f_tried) : f_tried[k][3] # "element"
    /\ f_pc = "returned" =>
          /\ f_result \in 1 .. f_locators
          /\ f_result \in f_page
          /\ TriedLocators = Tries(f_attempt, f_result, f_locators)
          /\ \A k \in 1 .. Len(f_tried) : f_tried[k][3] = "element" <=> k = Len(f_tried)

\* C18 witness: among six locators only the fourth matches; its element is
\* returned in the first pass
C18_Witness ==
    /\ f_pc = "returned"
    /\ f_locators = 6
    /\ f_page = {4}
    /\ f_result = 4
    /\ TriedLocators = <<<<0, 1>>, <<0, 2>>, <<0, 3>>, <<0, 4>>>>

\* C19: find_element_safely raises NoSuchElementException only after
\* MAX_RETRIES passes over the whole list with no element returned, having
\* slept after each pass but the last; it makes no further pass; and when it
\* returns it returns an element.
C19_RaisesAfterMaxRetriesPasses ==
    /\ f_attempt < MAX_RETRIES
    /\ f_sleeps = f_attempt
    /\ f_pc = "NoSuchElementException" =>
          /\ TriedLocators = Tries(MAX_RETRIES - 1, f_locators, f_locators)
          /\ \A k \in 1 .. Len(f_tried) : f_tried[k][3] = "caught"
          /\ Len(f_tried) = MAX_RETRIES * f_locators
          /\ f_sleeps = MAX_RETRIES - 1
          /\ f_result = 0
    /\ f_pc = "returned" => f_result # 0
    /\ (f_pc = "for" /\ f_i > f_locators /\ f_attempt = MAX_RETRIES - 1) =>
          ENABLED (FPassEnd /\ f_pc' = "NoSuchElementException")

\* C19 witness: three locators failed in each of three passes and
\* NoSuchElementException was raised
C19_Witness ==
    /\ f_pc = "NoSuchElementException"
    /\ f_locators = 3
    /\ Len(f_tried) = 9
    /\ f_sleeps = 2

\* the commands of the call of ensure_main_frame that is running or has
\* just returned
ThisCall == e_ops[Len(e_ops)]

\* C20: ensure_main_frame always returns normally: no exception leaves it;
\* when the probe succeeds it issues no other command and the context is the
\* one of entry; when the probe fails it switches to the document root and,
\* if that succeeded, into the 'main' frame, and it returns also when one of
\* the two switches fails, with the context the switches that succeeded have
\* set.
C20_EnsureMainFrameNeverRaises ==
    /\ e_pc \in {"off", "idle", "probe", "default_content", "frame", "returned"}
    /\ e_pc = "returned" =>
          IF ThisCall[1][2] = "ok"
          THEN ThisCall = << <<"find_element", "ok">> >> /\ context = e_entry
          ELSE /\ Len(ThisCall) >= 2
               /\ ThisCall[2][1] = "default_content"
               /\ IF ThisCall[2][2] = "ok"
                  THEN /\ Len(ThisCall) = 3
                       /\ ThisCall[3][1] = "frame"
                       /\ context = IF ThisCall[3][2] = "ok" THEN "main" ELSE "root"
                  ELSE Len(ThisCall) = 2 /\ context = e_entry

\* C20 witness: the probe failed, the switch to the root succeeded, the
\* switch into 'main' failed, and the call returned with the context at the
\* root
C20_Witness ==
    /\ e_pc = "returned"
    /\ e_entry = "main"
    /\ context = "root"
    /\ ThisCall = << <<"find_element", "NoSuchElementException">>,
                     <<"default_content", "ok">>,
                     <<"frame", "NoSuchFrameException">> >>

\* C25: in every attempt of download_dataset the baseline listing is
\* snapshotted before the search is triggered: whenever an attempt takes its
\* snapshot, it has not yet gone past the step that triggers the search.
C25_SnapshotBeforeSearch ==
    [][\A s \in Sessions :
          (s_pc[s] = "snapshot" /\ s_pc'[s] = NextStep("snapshot"))
             => StepIndex(s_pc[s]) <= StepIndex("search")]_vars

\* the successes among the outcomes a session has recorded
Successes(res) == Cardinality({k \in 1 .. Len(res) : res[k][1]})

\* C26: when download_dataset returns True the directory holds
\* {output_name}.xls with the content of the file the detector returned, the
\* name the file was downloaded under is gone, a stale {output_name}.xls is
\* replaced, and exactly one path of this dataset was appended to
\* downloaded_files; when it returns False nothing was appended.
C26_RenamedAndRecordedOnce ==
    \A s \in Sessions :
       s_pc[s] = "return" =>
          LET out == OutputName(Dataset(s))
              got == downloaded_file_path[s]
          IN  IF success[s]
              THEN /\ out \in Listing(dir)
                   /\ dir[out].src = <<got[2], got[3]>>
                   /\ got \notin Listing(dir)
                   /\ Count(downloaded_files[s], out) = 1
                   /\ Len(downloaded_files[s]) = Successes(results[s]) + 1
              ELSE /\ Count(downloaded_files[s], out) = 0
                   /\ Len(downloaded_files[s]) = Successes(results[s])

\* C27: the asset-weight step is attempted only after the submenu of the
\* statistics menu has been observed displayed; the expand click is made at
\* most max_expand_attempts times, and only while the submenu is absent.
C27_AssetWeightAfterLandmark ==
    /\ Count(n_clicks, "expand_icon") <= max_expand_attempts
    /\ (n_step > 4 /\ n_pc \in {"resolve", "resolving", "click", "ready"})
          => submenu_expanded

\* the first attempt of the running call has read the current value of the
\* dropdown
FirstReadDone ==
    /\ d_pc \notin {"off", "idle", "button", "current"}
    /\ d_retry = 0
    /\ (d_log = <<>> \/ Head(d_log) \notin {"unreadable", "exc"})

C22_TrueOnlyWhenDisplayed ==
    (d_pc = "returned" /\ d_result = TRUE) => current_value = option_text

\* C28: an attempt sends at most max_scroll_attempts wheel increments and
\* looks for the option after every one of them: when it gives the option up
\* as not found, the option is not among the rendered options.
C28_SearchedAfterEveryIncrement ==
    /\ scroll_attempt <= max_scroll_attempts
    /\ d_pc = "notfound" => ~Rendered(scroll_attempt)

\* C29: a call entered in the 'main' frame, none of whose frame switches
\* failed, returns or raises with the driver in the 'main' frame.
C29_ContextRestored ==
    (d_pc \in {"returned", "raised"} /\ d_entry.ctx = "main" /\ ~d_failed)
        => d_ctx = "main"

\* C29 witness: the option list was found in the document root only, the
\* option was clicked there, and the call has returned in the 'main' frame
C29_Witness ==
    /\ d_pc = "returned"
    /\ d_entry.ctx = "main"
    /\ ~d_failed
    /\ ~listbox_in_main_frame
    /\ d_log = <<"click_button", "default_content", "click_option", "frame_main">>
    /\ d_ctx = "main"

\* the last n entries of the log of the attempt
LogEnd(n) == IF Len(d_log) < n THEN <<>> ELSE SubSeq(d_log, Len(d_log) - n + 1, Len(d_log))

SharedLabelPage ==
    /\ q_pc \notin {"off"}
    /\ \E i \in Matching("all") : controls[i].group = "region" /\ controls[i].visible
    /\ \E i \in Matching("all") : controls[i].group = "pubpriv" /\ controls[i].visible

\* the controls chosen as click targets by a step
Clicked(step) == {q_clicks[k][2] : k \in {n \in 1 .. Len(q_clicks) : q_clicks[n][1] = step}}

C24_TargetsVisibleAndEnabled ==
    \A k \in 1 .. Len(q_clicks) :
        controls[q_clicks[k][2]].visible /\ controls[q_clicks[k][2]].enabled

\* C31: _select_from_custom_dropdown never returns False: a call that has
\* ended has returned True, or has raised after its last attempt
\* (retry = max_retries - 1) ended in an exception.
C31_NeverReturnsFalse ==
    /\ d_pc = "returned" => d_result = TRUE
    /\ d_pc # "returned" => d_result = "none"
    /\ d_pc = "raised" =>
          /\ d_retry = max_retries - 1
          /\ "exc" \in Range(d_log)

\* a call has re-raised the exception of its last attempt
C31_Witness ==
    /\ d_pc = "raised"
    /\ d_retry = max_retries - 1
    /\ d_result = "none"

\* the clicks on the dropdown button in the log of the attempt
ButtonClicks == Cardinality({k \in 1 .. Len(d_log) : d_log[k] = "click_button"})

\* C32: in an attempt the option list is looked for and searched only after a
\* click on the button after which aria-expanded was read as 'true'; when
\* none of the click methods gives 'true' the attempt ends in an exception
\* that counts as one of the max_retries attempts, and no option is clicked
\* in it.
C32_SearchOnlyAfterExpanded ==
    /\ d_pc \in {"listbox", "find", "scroll", "click"} =>
          /\ expanded
          /\ ButtonClicks >= 1
          /\ "not_opened" \notin Range(d_log)
    /\ \A k \in 1 .. Len(d_log) :
          d_log[k] = "click_option" =>
             \E j \in 1 .. k - 1 : d_log[j] = "click_button"
    /\ "not_opened" \in Range(d_log) =>
          /\ d_pc \in {"except", "retry", "raised"}
          /\ ButtonClicks >= click_methods
          /\ "click_option" \notin Range(d_log)
          /\ d_result = "none"
          /\ d_pc = "raised" => d_retry = max_retries - 1

\* every click method was tried on the last attempt, none opened the list,
\* and the call has raised
C32_Witness ==
    /\ d_pc = "raised"
    /\ "not_opened" \in Range(d_log)
    /\ ButtonClicks = click_methods

\* the target of the radio step that ran last
LastTarget == q_clicks[Len(q_clicks)][2]

\* C33: in the region and the public/private step the click methods are
\* tried in sequence, a further one whenever the target's aria-checked is
\* still not 'true' after the previous one, and the cascade stops at the
\* first method after which it reads 'true': a cascade that ended before its
\* last method left the target checked.
C33_CascadeUntilChecked ==
    q_pc \in {"pubpriv", "period"} =>
        /\ \A k \in 1 .. Len(q_tries) - 1 : q_tries[k] # "true"
        /\ Len(q_tries) < radio_methods => LastTarget \in aria_checked

AttemptEndedInRetry(s) ==
    /\ Last(att_log[s]) = Selenium
    /\ \/ s_pc[s] = "form" /\ attempt[s] >= 1
       \/ s_pc[s] = "return" /\ ~success[s] /\ attempt[s] = MAX_RETRIES - 1

\* C35: the search and the export action click only a displayed element:
\* when no locator yields a displayed match the action raises
\* NoSuchElementException without a click, which ends the attempt and
\* starts the next attempt of the dataset while attempts are left.
C35_ClickOnlyDisplayed ==
    \A s \in Sessions : \A button \in {"search", "export"} :
        "no_visible_" \o button \in Range(ds_trail[s]) =>
            /\ "click_" \o button \notin Range(ds_trail[s])
            /\ Last(ds_trail[s]) = "raise_" \o button
            /\ AttemptEndedInRetry(s)

\* the search was clicked, no Excel button was displayed, and the second
\* attempt is about to start
C35_Witness ==
    /\ s_pc[1] = "form"
    /\ attempt[1] = 1
    /\ "click_search" \in Range(ds_trail[1])
    /\ Last(ds_trail[1]) = "raise_export"
    /\ "no_visible_export" \in Range(ds_trail[1])

C37_DisappearedAbandoned ==
    [][(/\ w_pc \in {"exists", "getsize", "after"}
        /\ new_file_path \notin Listing(dir)
        /\ w_pc' # w_pc)
          => /\ w_pc' \in {"after", "for"}
             /\ w_result' = w_result
             /\ new_file_path \notin new_files']_vars

\* the steps of the worker of tab t
WorkerStep(t) ==
    WInit(t) \/ WNavigate(t) \/ WDownload(t) \/ WLoopRaise(t) \/ WFinish(t) \/ WExcept(t)

\* C38: a fatal error in one parallel session (the constructor or the
\* navigation raising) stays in its worker: the worker returns a result for
\* every dataset of its batch, the step that handles the error changes
\* nothing of the other sessions or of run_parallel, a session that has not
\* returned can always take its next step, and run_parallel ends with every
\* future collected.
C38_FatalErrorStaysInWorker ==
    /\ [](\A t \in Tabs :
            /\ t_pc[t] \in {"unstarted", "init", "navigate", "loop", "except", "returned"}
            /\ t_pc[t] = "returned" => Len(t_results[t]) = Len(Batch(t))
            /\ t_pc[t] \in {"init", "navigate", "loop", "except"} => ENABLED WorkerStep(t))
    /\ [](p_pc = "end" => collected = Tabs)
    /\ [][\A t \in Tabs :
            (t_pc[t] = "except" /\ t_pc'[t] # "except") =>
                /\ t_pc'[t] = "returned"
                /\ p_pc' = p_pc
                /\ all_results' = all_results
                /\ \A u \in Tabs \ {t} :
                      /\ t_pc'[u] = t_pc[u]
                      /\ t_results'[u] = t_results[u]
                      /\ browser'[u] = browser[u]]_vars

\* the browser of tab 1 did not start, tab 2 acquired its whole batch, and
\* run_parallel has ended after the retry pass on a surviving tab
C38_Witness ==
    /\ p_pc = "end"
    /\ browser[1] = "none"
    /\ \A k \in 1 .. Len(t_results[1]) : ~t_results[1][k][1]
    /\ Len(t_results[2]) = Len(Batch(2))
    /\ \A k \in 1 .. Len(t_results[2]) : t_results[2][k][1]
    /\ final_tally # <<>>

\* C39: in sequential mode, once the navigation has succeeded and the loop
\* over DATASET_CONFIGS has finished, run() gets through its execution
\* summary without entering the except branch that logs "EXECUTION FAILED".
C39_SummaryWithoutFatalPath ==
    (n_pc = "ready" /\ Len(r_results) = Len(DATASET_CONFIGS)) =>
        /\ r_pc # "except"
        /\ "EXECUTION FAILED" \notin r_logged

\* C40: in main.py's run(), every file handed to process_excel_file comes with
\* the DatasetConfig whose download produced it, also when the download of an
\* earlier config failed.
C40_FileProcessedWithItsConfig ==
    \A n \in 1 .. Len(k_processed) :
        k_processed[n][1] = RenamedFile(k_processed[n][2])

====
